---- MODULE Spec2Model ----
(***************************************************************************)
(* LightVisualizer: the lighting engine (LightingRenderer, renderer.js)   *)
(* and the UI handlers that drive it (ui.js), as a state machine.         *)
(*                                                                         *)
(* Execution is single-threaded: every action below is one synchronous    *)
(* run of JavaScript, from the host event (click, timer, animation frame, *)
(* resolved promise) that starts it to the next await on a host task or   *)
(* to its return.  A promise continuation that is a microtask (the UI     *)
(* handler resuming after renderHighQuality returns) belongs to the same  *)
(* action as the code that resolved it.                                   *)
(*                                                                         *)
(* Units: distances in tenths of a metre, haze density and height,        *)
(* softness and ambient fill in thousandths, house light intensity in     *)
(* hundredths, lux in lux, angles in degrees, gobo scale in 1/10000, gobo *)
(* rotation and focus in 1/1000, pixel ratio in tenths, wall-clock time   *)
(* in milliseconds.  A colour "#rrggbb" is the number 0xrrggbb.           *)
(***************************************************************************)
EXTENDS Integers, Sequences, FiniteSets, Bags, TLC

VARIABLES eng, job, ui, loads

vars == <<eng, job, ui, loads>>

(***************************************************************************)
(* Bounds of the model.                                                    *)
(***************************************************************************)
\* Readings of performance.now() - startedAt at the head of a sample iteration
\* are drawn from 0, maxMs - MaxOver + 1, ..., maxMs + MaxOver.
MaxOver == 1
\* Number of distinct light jitter offsets Math.random() is allowed to pick.
MaxJitter == 1

(***************************************************************************)
(* Program constants.                                                      *)
(***************************************************************************)
\* const samples = 16
samples == 16
\* const maxMs = 20000
maxMs == 20000
\* renderer.setPixelRatio(Math.min(window.devicePixelRatio, 1.5)) on a HiDPI host
DevicePixelRatio == 15
\* this.renderer.setPixelRatio(1) during a job
HqPixelRatio == 10
\* this.spot.shadow.mapSize.set(1024, 1024) / set(2048, 2048)
PreviewMapSize == 1024
HqMapSize == 2048
\* this.spot.shadow.radius = 1 / = 6
PreviewShadowRadius == 1
HqShadowRadius == 6
\* clamp(finiteOr(state.throwDistance, 3.2), 1.2, 8.0)
ThrowMin == 12
ThrowMax == 80
\* this.hazeAnimating = hazeEnabled > 0.5 && hazeDensity > 0.001
HazeAnimateMin == 1
\* defaults.hazeDensity = 0.35, defaults.throwDistance = 3.2
DefaultHazeDensity == 350
DefaultThrow == 32

\* Throw distances the distance slider is moved to.
UiThrows == {DefaultThrow, 95}
\* Client sizes of the viewport canvas (ResizeObserver).
CanvasSizes == {<<800, 600>>, <<1000, 700>>}
InitCanvasSize == <<800, 600>>
\* The option values of the renderResolution select.
Resolutions == {"1280x720", "1920x1080", "2560x1440"}

Min(a, b) == IF a < b THEN a ELSE b
Max(a, b) == IF a > b THEN a ELSE b

\* A JavaScript number is an integer in the unit of its field.  The values
\* that are not finite numbers are four integers beyond every finite value
\* of the model, ordered as the infinities are; no arithmetic is done on them.
PosInfinity == 2000000000
NegInfinity == -2000000000
NaN == 2000000001
Undefined == 2000000002

\* Number.isFinite(value)
isFinite(value) == value \notin {PosInfinity, NegInfinity, NaN, Undefined}

\* function finiteOr(value, fallback)
finiteOr(value, fallback) == IF isFinite(value) THEN value ELSE fallback

\* Math.min(a, b) and Math.max(a, b): NaN when an argument is NaN or converts
\* to NaN.
MathMin(a, b) == IF {a, b} \cap {NaN, Undefined} # {} THEN NaN ELSE Min(a, b)
MathMax(a, b) == IF {a, b} \cap {NaN, Undefined} # {} THEN NaN ELSE Max(a, b)

\* function clamp(v, min, max)
clamp(v, lo, hi) == MathMax(lo, MathMin(hi, v))

\* function parseResolution(text): split on the separator, Number() each part
parseResolution(text) ==
    CASE text = "1280x720" -> [width |-> 1280, height |-> 720]
      [] text = "1920x1080" -> [width |-> 1920, height |-> 1080]
      [] text = "2560x1440" -> [width |-> 2560, height |-> 1440]

(***************************************************************************)
(* Frame scheduling.                                                       *)
(***************************************************************************)
\* shouldAnimateRealtime()
shouldAnimateRealtime(e) == e.hazeAnimating /\ ~e.renderPaused

\* requestRender() without `if (this.animationHandle) return`.
requestRenderAlwaysSchedules(e) ==
    LET scheduled(e1) ==
            IF e1.renderPaused THEN e1
            ELSE [e1 EXCEPT !.animationHandle = TRUE,
                            !.pendingFrames = IF @ < 2 THEN @ + 1 ELSE 2]
    IN  CHOOSE r \in {scheduled(e1) : e1 \in {[e EXCEPT !.frameRequested = TRUE]}} : TRUE

\* requestRender(): set the dirty flag; schedule one animation-frame callback
\* unless rendering is paused or a callback is already pending.
\* eng.pendingFrames counts the callbacks the host holds: those passed to
\* requestAnimationFrame that have neither run nor been cancelled.
requestRender(e) ==
    LET scheduled(e1) ==
            IF e1.renderPaused THEN e1
            ELSE IF e1.animationHandle THEN e1
            ELSE [e1 EXCEPT !.animationHandle = TRUE, !.pendingFrames = @ + 1]
    IN  CHOOSE r \in {scheduled(e1) : e1 \in {[e EXCEPT !.frameRequested = TRUE]}} : TRUE

\* animate ending with an unconditional requestRender(): a frame every tick.
animateEveryTick(e, cameraMoved, jobRunning) ==
    LET e1 == [e EXCEPT !.animationHandle = FALSE, !.pendingFrames = @ - 1]
    IN  IF e1.renderPaused THEN e1
        ELSE LET e2 == IF cameraMoved THEN requestRender(e1) ELSE e1
                 e3 == [e2 EXCEPT !.frameRequested = FALSE,
                                  !.framesInJob = IF jobRunning THEN TRUE ELSE @]
             IN  requestRender(e3)

\* animate(nowMs): the animation-frame callback.  cameraMoved: controls.update()
\* dispatched a "change" event, whose listener calls requestRender().
\* frames counts the interactive frames rendered while a job is running.
animate(e, cameraMoved, jobRunning) ==
    LET e1 == [e EXCEPT !.animationHandle = FALSE, !.pendingFrames = @ - 1]
    IN  IF e1.renderPaused THEN e1
        ELSE LET e2 == IF cameraMoved THEN requestRender(e1) ELSE e1
                 e3 == [e2 EXCEPT !.frameRequested = FALSE,
                                  !.framesInJob = IF jobRunning THEN TRUE ELSE @]
             IN  IF shouldAnimateRealtime(e3) \/ e3.frameRequested
                 THEN requestRender(e3) ELSE e3

\* setControlsLocked with the flag the wrong way round.
setControlsLockedInverted(e, isLocked) == [e EXCEPT !.controlsEnabled = isLocked]

\* setControlsLocked(isLocked)
setControlsLocked(e, isLocked) == [e EXCEPT !.controlsEnabled = ~isLocked]

\* resize(): the ResizeObserver callback, for a client size w x h
resize(e, w, h) ==
    IF w <= 0 \/ h <= 0 THEN e
    ELSE requestRender([e EXCEPT !.size = <<w, h>>])

(***************************************************************************)
(* Camera state.  Coordinates are in hundredths of a metre.  A Vector3 is  *)
(* a record [x, y, z] and the array of a camera state a sequence; a camera *)
(* state object is [isNull, position, target], position and target being   *)
(* sequences of any length.                                                *)
(***************************************************************************)
\* this.controls.minDistance = 1.2, maxDistance = 7.5
MinDistance == 120
MaxDistance == 750
\* this.controls.maxPolarAngle = Math.PI * 0.88: its cosine is -0.9298 and
\* its sine 0.3681, in 1/10000.  The square of the cosine is 0.8645; an
\* offset counts as beyond the angle when the square of its cosine, in
\* thousandths, exceeds 870, which leaves room for the rounding of integer
\* coordinates.
MaxPolarCos == -9298
MaxPolarSin == 3681
MaxPolarCosSquared == 870

\* Vector3.toArray() and Vector3.fromArray(array)
toArray(v) == <<v.x, v.y, v.z>>
fromArray(array) == [x |-> array[1], y |-> array[2], z |-> array[3]]

\* The integer part of the square root.
isqrt(n) == CHOOSE r \in 0..3000 : r * r <= n /\ n < (r + 1) * (r + 1)

\* The offset of the camera from the target.
offsetOf(cam) ==
    [x |-> cam.position.x - cam.target.x, y |-> cam.position.y - cam.target.y,
     z |-> cam.position.z - cam.target.z]

lengthSq(v) == v.x * v.x + v.y * v.y + v.z * v.z

\* The polar angle of offset o is beyond maxPolarAngle.
beyondPolar(o) ==
    o.y < 0 /\ lengthSq(o) > 0 /\ (o.y * o.y * 1000) \div lengthSq(o) > MaxPolarCosSquared

\* The offset is one OrbitControls.update() keeps: its polar angle is at most
\* maxPolarAngle and its length within [minDistance, maxDistance].
withinLimits(o) ==
    /\ lengthSq(o) >= MinDistance * MinDistance
    /\ lengthSq(o) <= MaxDistance * MaxDistance
    /\ ~beyondPolar(o)

\* c * rc / 10000 rounded towards zero, or away from zero
scaled(c, rc, away) ==
    LET m == (IF c < 0 THEN -c ELSE c) * rc
        q == IF away THEN (m + 9999) \div 10000 ELSE m \div 10000
    IN  IF c < 0 THEN -q ELSE q

\* this.controls.update() with no pointer motion pending: the offset from the
\* target in spherical coordinates, phi clamped to maxPolarAngle, the radius
\* clamped to [minDistance, maxDistance], and the position set from it.  An
\* offset within the limits is kept as it is; the coordinates of a moved
\* position are integers, rounded so that the position lies within the
\* limits.
controlsUpdate(cam) ==
    LET o == offsetOf(cam)
        tooNear == lengthSq(o) < MinDistance * MinDistance
        root == isqrt(lengthSq(o))
        r == IF root * root = lengthSq(o) \/ tooNear THEN root ELSE root + 1
        h == isqrt(o.x * o.x + o.z * o.z)
        rc == Max(MinDistance, Min(MaxDistance, root))
        \* the direction of the offset after the clamp of phi, in 1/10000
        dir == IF r = 0 THEN [x |-> 0, y |-> 10000, z |-> 0]
               ELSE IF beyondPolar(o)
               THEN IF h = 0 THEN [x |-> 0, y |-> MaxPolarCos, z |-> MaxPolarSin]
                    ELSE [x |-> (MaxPolarSin * o.x) \div h, y |-> MaxPolarCos,
                          z |-> (MaxPolarSin * o.z) \div h]
               ELSE [x |-> (o.x * 10000) \div r, y |-> (o.y * 10000) \div r,
                     z |-> (o.z * 10000) \div r]
    IN  IF withinLimits(o) THEN cam
        ELSE [cam EXCEPT !.position =
                 [x |-> cam.target.x + scaled(dir.x, rc, tooNear),
                  y |-> cam.target.y + scaled(dir.y, rc, tooNear),
                  z |-> cam.target.z + scaled(dir.z, rc, tooNear)]]

\* getCameraState()
getCameraState(e) ==
    [isNull |-> FALSE, position |-> toArray(e.camera.position),
     target |-> toArray(e.camera.target)]

\* applyCameraState that does not apply the target.
applyCameraStateDropsTarget(e, cameraState) ==
    IF cameraState.isNull THEN e
    ELSE LET c1 == IF Len(cameraState.position) = 3
                   THEN [e.camera EXCEPT !.position = fromArray(cameraState.position)]
                   ELSE e.camera
         IN  requestRender([e EXCEPT !.camera = controlsUpdate(c1)])

\* applyCameraState(cameraState)
applyCameraState(e, cameraState) ==
    IF cameraState.isNull THEN e
    ELSE LET c1 == IF Len(cameraState.position) = 3
                   THEN [e.camera EXCEPT !.position = fromArray(cameraState.position)]
                   ELSE e.camera
             c2 == IF Len(cameraState.target) = 3
                   THEN [c1 EXCEPT !.target = fromArray(cameraState.target)]
                   ELSE c1
         IN  requestRender([e EXCEPT !.camera = controlsUpdate(c2)])

(***************************************************************************)
(* Photometric converter.  The light position is determined by azimuth,    *)
(* elevation and the clamped throw distance; a position is [throw,         *)
(* azimuth, elevation, jitter], jitter 0 being the unjittered position.    *)
(***************************************************************************)
\* The angles, in degrees, at which the model evaluates Math.cos, with the
\* cosine in thousandths.
Degrees == {-180, -80, -30, 0, 10, 18, 44, 60, 70, 80, 90, 180}
cos1000 ==
    [d \in Degrees |->
       CASE d \in {-180, 180} -> -1000
         [] d \in {-80, 80} -> 174
         [] d = -30 -> 866
         [] d = 0 -> 1000
         [] d = 10 -> 985
         [] d = 18 -> 951
         [] d = 44 -> 719
         [] d = 60 -> 500
         [] d = 70 -> 342
         [] d = 90 -> 0]

\* THREE.MathUtils.degToRad(degrees), in milliradians
degToRad(degrees) == (degrees * 31416) \div 1800

\* normal.dot(towardLight) for normal (0, 0, 1): the z component of
\* vectorFromAzEl(azimuth, elevation), cos(az) * cos(el), in thousandths;
\* then Math.max(..., 0.15).
incidenceOf(azimuth, elevation) ==
    MathMax((cos1000[azimuth] * cos1000[elevation]) \div 1000, 150)

\* A candela value that grows with the distance, not with its square.
candelaLinearInDistance(lux, throwDistance, incidence) ==
    LET n == lux * throwDistance * 10
    IN  (n \div incidence) * 1000 + ((n % incidence) * 1000) \div incidence

\* const candela = (lux * throwDistance * throwDistance) / incidence, in
\* hundredths: n * 1000 \div incidence, computed without leaving 32 bits
candela(lux, throwDistance, incidence) ==
    LET n == lux * throwDistance * throwDistance
    IN  (n \div incidence) * 1000 + ((n % incidence) * 1000) \div incidence

\* spot.intensity without the clamp of the calibrated value.
spotIntensityUnclamped(cd) == (cd * 3) \div 100

\* const calibrated = candela * 0.03; this.spot.intensity = clamp(calibrated,
\* 0.01, 12000), in hundredths.
spotIntensity(cd) == clamp((cd * 3) \div 100, 1, 1200000)

\* The colour of `state.finalLightColorHex || "#ffd6a8"` and of
\* `state.houseLightColorHex || "#ffffff"`
hexOr(hex, fallback) == IF hex = Undefined THEN fallback ELSE hex

LightPosition(s) ==
    [throw |-> clamp(finiteOr(s.throwDistance, 32), ThrowMin, ThrowMax),
     azimuth |-> finiteOr(s.azimuth, 0),
     elevation |-> finiteOr(s.elevation, 18),
     jitter |-> 0]

\* The values applyLightingState derives from `state` and writes to the spot,
\* the ambient and house lights and the uniforms of the preview material and
\* the haze volume.  intensity, candela in 1/100; angle in milliradians; penumbra,
\* ambient, lightGain and hazeHeight in thousandths; houseLight in hundredths;
\* radius and spotCenter in 1/10000.
DerivedLighting(s) ==
    LET azimuth == finiteOr(s.azimuth, 0)
        elevation == finiteOr(s.elevation, 18)
        throwDistance == clamp(finiteOr(s.throwDistance, 32), ThrowMin, ThrowMax)
        beamAngle == clamp(finiteOr(s.beamAngle, 44), 10, 80)
        softness == clamp(finiteOr(s.softness, 350), 0, 1000)
        ambientFill == clamp(finiteOr(s.ambientFill, 2000), 0, 10000)
        hazeHeight == clamp(finiteOr(s.hazeHeight, 800), 0, 2400)
        hazeQuality == IF s.hazeQuality \in {"Low", "High"} THEN s.hazeQuality ELSE "Medium"
        lux == clamp(finiteOr(s.lux, 900), 1, 4000)
        houseLightIntensity == clamp(finiteOr(s.houseLightIntensity, 0), 0, 500)
        incidence == incidenceOf(azimuth, elevation)
    IN  [intensity |-> spotIntensity(candela(lux, throwDistance, incidence)),
         candela |-> candela(lux, throwDistance, incidence),
         incidence |-> incidence,
         penumbra |-> softness,
         angle |-> degToRad(beamAngle),
         color |-> hexOr(s.finalLightColorHex, 16766632),
         ambient |-> clamp(ambientFill \div 100, 0, 100),
         houseLightColor |-> hexOr(s.houseLightColorHex, 16777215),
         houseLight |-> houseLightIntensity,
         lightGain |-> clamp((lux * 1000) \div 1200, 120, 3500),
         radius |-> clamp(1600 + (beamAngle * 2600) \div 80 + throwDistance * 20, 1800, 5600),
         spotCenter |-> <<clamp(5000 + (azimuth * 2800) \div 85, 1200, 8800),
                          clamp(5000 - (elevation * 2800) \div 70, 1200, 8800)>>,
         hazeHeight |-> hazeHeight,
         stepCount |-> CASE hazeQuality = "Low" -> 14 [] hazeQuality = "High" -> 32
                         [] OTHER -> 22,
         shadowSampleCount |-> CASE hazeQuality = "Low" -> 1 [] hazeQuality = "High" -> 4
                                 [] OTHER -> 2]

\* applyLightingState(state).  The state object and the engine's fields after
\* the assignments are each a value computed once.
applyLightingState(e, s) ==
    LET applied(state) ==
            LET hazeEnabled == IF state.hazeEnabled = FALSE THEN 0 ELSE 1
                hazeDensity == clamp(finiteOr(state.hazeDensity, 0), 0, 1000)
                throwDistance == clamp(finiteOr(state.throwDistance, 32), ThrowMin, ThrowMax)
            IN  [e EXCEPT
                   !.spotPosition = LightPosition(state),
                   !.light = DerivedLighting(state),
                   !.uniforms = [throwDistance |-> throwDistance,
                                 hazeEnabled |-> hazeEnabled,
                                 hazeDensity |-> hazeDensity],
                   !.hazeAnimating = (hazeEnabled = 1 /\ hazeDensity > HazeAnimateMin)]
    IN  CHOOSE r \in {requestRender(e1) : e1 \in {applied(state) : state \in {s}}} : TRUE

\* A text that is not "#" and six hexadecimal digits.
InvalidHex == -1

\* function sanitizeHex(input, fallback = "#ffffff")
sanitizeHex(input, fallback) == IF input \in 0..16777215 THEN input ELSE fallback

\* function hexToRgb(hex): n = parseInt(clean, 16); (n >> 16) & 255,
\* (n >> 8) & 255, n & 255
hexToRgb(hex) ==
    LET n == sanitizeHex(hex, 16777215)
    IN  [r |-> (n \div 65536) % 256, g |-> (n \div 256) % 256, b |-> n % 256]

\* Math.round(x) for x = num / den, den > 0: the nearest integer, halves up
round(num, den) == (2 * num + den) \div (2 * den)

\* function rgbToHex(r, g, b), each channel given as a fraction num / 255:
\* clamp(Math.round(v), 0, 255) per channel, two hex digits each
rgbToHex(r, g, b) ==
    clamp(round(r, 255), 0, 255) * 65536 + clamp(round(g, 255), 0, 255) * 256
        + clamp(round(b, 255), 0, 255)

\* multiplyHex with Math.floor in the place of rgbToHex's Math.round.
multiplyHexTruncates(hexA, hexB) ==
    LET a == hexToRgb(hexA)
        b == hexToRgb(hexB)
    IN  ((a.r * b.r) \div 255) * 65536 + ((a.g * b.g) \div 255) * 256 + (a.b * b.b) \div 255

\* function multiplyHex(hexA, hexB)
multiplyHex(hexA, hexB) ==
    LET a == hexToRgb(hexA)
        b == hexToRgb(hexB)
    IN  rgbToHex(a.r * b.r, a.g * b.g, a.b * b.b)

\* function finalLightHex()
finalLightHex(state) == multiplyHex(state.lightColorHex, state.gelHex)

\* The object `{ ...state, finalLightColorHex: finalLightHex() }`: the fields
\* of the UI state that applyLightingState and the jitter read.
LightingOf(state) ==
    [throwDistance |-> state.throwDistance,
     hazeEnabled |-> state.hazeEnabled,
     hazeDensity |-> state.hazeDensity,
     azimuth |-> state.azimuth,
     elevation |-> state.elevation,
     beamAngle |-> state.beamAngle,
     softness |-> state.softness,
     ambientFill |-> state.ambientFill,
     hazeHeight |-> state.hazeHeight,
     hazeQuality |-> state.hazeQuality,
     lux |-> state.lux,
     houseLightIntensity |-> state.houseLightIntensity,
     houseLightColorHex |-> state.houseLightColorHex,
     finalLightColorHex |-> finalLightHex(state)]

\* pushLightingToRenderer()
pushLightingToRenderer(e, u) == applyLightingState(e, LightingOf(u.state))

(***************************************************************************)
(* The fragment shader of the haze volume (buildHazeVolumeMaterial), on    *)
(* fixed-point numbers in thousandths.  A ray is the fragment's view ray:  *)
(* [hit, len, jitter, field, lit], where hit is the result of rayBox, len  *)
(* is tFar - tNear, jitter the fragment's jitter, field the product        *)
(* band * coneDensity * edgeMask * mix(0.42, 1.25, n) at the ray's even    *)
(* steps (half of it at the odd steps) and lit the product                 *)
(* beamLit * phase * mediumShadow * shadowWeight.  Radiance is the sum of  *)
(* the colour channels.                                                    *)
(***************************************************************************)
\* const int MAX_STEPS = 36
MAX_STEPS == 36

\* exp(-x) in thousandths, for x >= 0 in thousandths: 1 / (1 + x + x^2 / 2),
\* which is 1.0 exactly at 0 and less than 1.0 elsewhere.
expNeg(x) == IF x = 0 THEN 1000 ELSE Min(999, 1000000 \div (1000 + x + (x * x) \div 2000))

\* The local density factor at step i of the ray.
fieldAt(ray, i) == IF i % 2 = 0 THEN ray.field ELSE ray.field \div 2

\* `exp(-sigmaT * dt * 3.6)`: extinction that does not depend on hazeEnabled.
extinctionIgnoresEnabled(sigmaT, dt, hazeEnabled) ==
    expNeg((((sigmaT * dt) \div 1000) * 3600) \div 1000)

\* exp(-sigmaT * dt * hazeEnabled * 3.6), the factor of `trans *= ...`.
extinction(sigmaT, dt, hazeEnabled) ==
    expNeg((((sigmaT * dt) \div 1000) * hazeEnabled * 3600) \div 1000)

RECURSIVE hazeMarch(_, _, _, _, _)
\* The loop `for (int i = 0; i < MAX_STEPS; i += 1)` of main() from step i on,
\* with the transmittance and the accumulated radiance so far.
hazeMarch(u, ray, i, trans, accum) ==
    LET dt == ray.len \div Max(u.stepCount, 1)
        t == (ray.jitter * dt) \div 1000 + i * dt + dt \div 2
        densityField == (fieldAt(ray, i) * u.hazeDensity) \div 1000
        sigmaS == (densityField * 1350) \div 1000
        sigmaT == (densityField * 1550) \div 1000
        scatter == (((ray.lit * sigmaS) \div 1000) * u.hazeEnabled * 38)
                   + (sigmaS * 14 * u.hazeEnabled) \div 1000
        accum1 == accum + (((trans * scatter) \div 1000) * dt) \div 1000
        trans1 == (trans * extinction(sigmaT, dt, u.hazeEnabled)) \div 1000
    IN  IF i >= MAX_STEPS \/ i >= u.stepCount \/ t > ray.len
        THEN [trans |-> trans, accum |-> accum]
        ELSE IF fieldAt(ray, i) <= 1
        THEN hazeMarch(u, ray, i + 1, trans, accum)
        ELSE IF trans1 < 20 THEN [trans |-> trans1, accum |-> accum1]
        ELSE hazeMarch(u, ray, i + 1, trans1, accum1)

\* main() of the fragment shader: the fragment is discarded, or gl_FragColor
\* is vec4(color, alpha).
hazeFragment(u, ray) ==
    IF ~ray.hit \/ ray.len <= 0
    THEN [discarded |-> TRUE, color |-> 0, alpha |-> 0]
    ELSE LET m == hazeMarch(u, ray, 0, 1000, 0)
         IN  [discarded |-> FALSE,
              color |-> m.accum + ((1000 - m.trans) * 80) \div 1000,
              alpha |-> clamp(((1000 - m.trans) * 1100) \div 1000, 0, 920)]

\* The uniforms of hazeVolumeMaterial that main() reads, as applyLightingState
\* set them.
HazeUniforms(e) ==
    [hazeEnabled |-> e.uniforms.hazeEnabled, hazeDensity |-> e.uniforms.hazeDensity,
     stepCount |-> e.light.stepCount]

(***************************************************************************)
(* The high-quality render job.  The operators below take and return a     *)
(* world w = [eng, job, ui]: the engine's fields, the locals of the        *)
(* running renderHighQuality call, and the UI module's variables.          *)
(*                                                                         *)
(* job.pc is where the call is suspended: "idle" (no call), "yield" (the   *)
(* setTimeout(0) after a sample), "encode" (canvasToPngBytes of the        *)
(* accumulated image), "fbEncode" (canvasToPngBytes inside the fallback).  *)
(* job.result and job.error keep the outcome of the last call until the    *)
(* next one: the value returned ("Exception": the call threw) and the      *)
(* messages of the errors its two catch blocks caught.  job.pre holds the   *)
(* engine settings observed when the call was made and job.fallbackTried   *)
(* whether the call reached renderHighQualityFallback; the code reads      *)
(* neither.                                                                *)
(***************************************************************************)
NoLighting ==
    [throwDistance |-> 0, hazeEnabled |-> FALSE, hazeDensity |-> 0,
     azimuth |-> 0, elevation |-> 0, beamAngle |-> 0, softness |-> 0, ambientFill |-> 0,
     hazeHeight |-> 0, hazeQuality |-> "", lux |-> 0, houseLightIntensity |-> 0,
     houseLightColorHex |-> 0, finalLightColorHex |-> 0]
NoPosition == [throw |-> 0, azimuth |-> 0, elevation |-> 0, jitter |-> 0]

\* The settings a job changes and has to put back.
Observed(e) ==
    [wallMaterial |-> e.wallMaterial,
     wallReceiveShadow |-> e.wallReceiveShadow,
     spotCastShadow |-> e.spotCastShadow,
     mapSize |-> e.mapSize,
     shadowRadius |-> e.shadowRadius,
     shadowEnabled |-> e.shadowEnabled,
     shadowType |-> e.shadowType,
     pixelRatio |-> e.pixelRatio,
     size |-> e.size,
     spotPosition |-> e.spotPosition]

NoObserved ==
    [wallMaterial |-> "none", wallReceiveShadow |-> FALSE, spotCastShadow |-> FALSE,
     mapSize |-> 0, shadowRadius |-> 0, shadowEnabled |-> FALSE, shadowType |-> "none",
     pixelRatio |-> 0, size |-> <<0, 0>>, spotPosition |-> NoPosition]

\* const size, oldPixelRatio, oldShadowEnabled, ... originalLightPos
SaveOld(e) ==
    [size |-> e.size,
     oldPixelRatio |-> e.pixelRatio,
     oldShadowEnabled |-> e.shadowEnabled,
     oldShadowType |-> e.shadowType,
     oldMaterial |-> e.wallMaterial,
     oldSpotCastShadow |-> e.spotCastShadow,
     oldMapSize |-> e.mapSize,
     oldRadius |-> e.shadowRadius,
     originalLightPos |-> e.spotPosition]

NoOld ==
    [size |-> <<0, 0>>, oldPixelRatio |-> 0, oldShadowEnabled |-> FALSE,
     oldShadowType |-> "none", oldMaterial |-> "none", oldSpotCastShadow |-> FALSE,
     oldMapSize |-> 0, oldRadius |-> 0, originalLightPos |-> NoPosition]

\* renderHighQualityFallback: const oldSpotMap, oldCast, ... oldReceiveShadow
SaveFallbackOld(e) ==
    [oldSpotMap |-> e.spotMap,
     oldCast |-> e.spotCastShadow,
     oldShadowEnabled |-> e.shadowEnabled,
     oldShadowType |-> e.shadowType,
     oldMaterial |-> e.wallMaterial,
     oldReceiveShadow |-> e.wallReceiveShadow]

NoFallbackOld ==
    [oldSpotMap |-> 0, oldCast |-> FALSE, oldShadowEnabled |-> FALSE,
     oldShadowType |-> "none", oldMaterial |-> "none", oldReceiveShadow |-> FALSE]

IdleJob ==
    [pc |-> "idle", i |-> 0, state |-> NoLighting,
     width |-> 0, height |-> 0, old |-> NoOld, fb |-> NoFallbackOld,
     error |-> "", fallbackError |-> "", result |-> "none", fallbackTried |-> FALSE,
     pre |-> NoObserved, accum |-> 0, rendered |-> {}, foundCancel |-> FALSE]

\* setBusyRenderUI(busy)
setBusyRenderUI(u, busy) ==
    [u EXCEPT !.isRendering = busy, !.hqDisabled = busy, !.cancelDisabled = ~busy]

\* setStatus(message, isError = false)
setStatus(u, message, isError) == [u EXCEPT !.status = [text |-> message, isError |-> isError]]

\* startLoading(message, percent): the overlay is shown and the 45 s failsafe
\* timer is set anew.  ui.loadingFailsafeTimer: the handle is not null.
startLoading(u) ==
    [u EXCEPT !.loadingDepth = @ + 1, !.overlayHidden = FALSE,
              !.loadingFailsafeTimer = TRUE]

\* stopLoading()
stopLoading(u) ==
    LET depth == IF u.loadingDepth - 1 > 0 THEN u.loadingDepth - 1 ELSE 0
    IN  IF depth > 0 THEN [u EXCEPT !.loadingDepth = depth]
        ELSE [u EXCEPT !.loadingDepth = 0, !.overlayHidden = TRUE,
                       !.loadingFailsafeTimer = FALSE]

\* forceHideLoading()
forceHideLoading(u) ==
    [u EXCEPT !.loadingDepth = 0, !.overlayHidden = TRUE,
              !.loadingFailsafeTimer = FALSE]

\* A finally block that leaves rendering paused.
hqFinallyStaysPaused(e, j) ==
    LET e1 == [e EXCEPT
                 !.spotPosition = j.old.originalLightPos,
                 !.wallMaterial = j.old.oldMaterial,
                 !.wallReceiveShadow = FALSE,
                 !.spotCastShadow = j.old.oldSpotCastShadow,
                 !.mapSize = j.old.oldMapSize,
                 !.shadowRadius = j.old.oldRadius,
                 !.shadowEnabled = j.old.oldShadowEnabled,
                 !.shadowType = j.old.oldShadowType,
                 !.pixelRatio = j.old.oldPixelRatio,
                 !.size = j.old.size]
        e2 == applyLightingState(e1, j.state)
        e3 == setControlsLocked(e2, FALSE)
    IN  [e3 EXCEPT !.cancelRender = FALSE]

\* The finally block of renderHighQuality.
hqFinally(e, j) ==
    LET e1 == [e EXCEPT
                 !.spotPosition = j.old.originalLightPos,
                 !.wallMaterial = j.old.oldMaterial,
                 !.wallReceiveShadow = FALSE,
                 !.spotCastShadow = j.old.oldSpotCastShadow,
                 !.mapSize = j.old.oldMapSize,
                 !.shadowRadius = j.old.oldRadius,
                 !.shadowEnabled = j.old.oldShadowEnabled,
                 !.shadowType = j.old.oldShadowType,
                 !.pixelRatio = j.old.oldPixelRatio,
                 !.size = j.old.size,
                 !.renderPaused = FALSE]
        e2 == applyLightingState(e1, j.state)
        e3 == setControlsLocked(e2, FALSE)
    IN  [e3 EXCEPT !.cancelRender = FALSE]

\* The hqRenderButton handler after `await engine.renderHighQuality(...)`:
\* the result branches and its finally.
uiAfterRender(u, result, message) ==
    LET u1 == CASE result = "Completed" -> setStatus(u, "High quality render completed.", FALSE)
                [] result = "Exception" ->
                     setStatus(u, "High quality render failed unexpectedly. Please try again.", TRUE)
                [] result = "FailedFallback" ->
                     setStatus(u, "HQ fallback render completed (reduced quality for stability).", FALSE)
                [] result = "Canceled" -> setStatus(u, "High quality render canceled.", FALSE)
                [] OTHER -> setStatus(u, message, TRUE)
    IN  setBusyRenderUI(u1, FALSE)

\* renderHighQuality returns `result`: its finally block runs, the call's
\* locals go away, and the awaiting UI handler resumes in the same microtask
\* checkpoint.
hqReturn(w, result, message) ==
    [eng |-> hqFinally(w.eng, w.job),
     job |-> [IdleJob EXCEPT !.result = result, !.error = w.job.error,
                             !.fallbackError = w.job.fallbackError,
                             !.fallbackTried = w.job.fallbackTried,
                             !.foundCancel = w.job.foundCancel],
     ui |-> uiAfterRender(w.ui, result, message)]

\* renderHighQuality without the inner catch block: fallbackError escapes.
fallbackRethrows(w, message) ==
    hqReturn([w EXCEPT !.job.fallbackError = message], "Exception", message)

\* The inner catch block of renderHighQuality: the fallback threw fallbackError.
\* The message returned is fallbackError?.message || error?.message || ...
fallbackFailed(w, message) ==
    hqReturn([w EXCEPT !.job.fallbackError = message], "Failed",
             IF message # "" THEN message ELSE w.job.error)

\* The finally block of renderHighQualityFallback.
fallbackFinally(e, j) ==
    [e EXCEPT
       !.spotMap = j.fb.oldSpotMap,
       !.spotCastShadow = j.fb.oldCast,
       !.shadowEnabled = j.fb.oldShadowEnabled,
       !.shadowType = j.fb.oldShadowType,
       !.wallMaterial = j.fb.oldMaterial,
       !.wallReceiveShadow = j.fb.oldReceiveShadow]

\* renderHighQualityFallback(state, width, height) up to its await, called from
\* the catch block of renderHighQuality.  inp.fbCtxOk: getContext("2d") gave a
\* context; inp.fbRenderOk: renderer.render and drawImage did not throw.
renderHighQualityFallback(w, inp) ==
    LET w0 == [w EXCEPT !.job.fallbackTried = TRUE]
    IN  IF ~inp.fbCtxOk
        THEN fallbackFailed(w0, "Fallback render canvas unavailable.")
        ELSE LET j1 == [w0.job EXCEPT !.fb = SaveFallbackOld(w0.eng)]
                 e1 == [w0.eng EXCEPT
                          !.spotMap = 0,
                          !.spotCastShadow = TRUE,
                          !.shadowEnabled = TRUE,
                          !.shadowType = "BasicShadowMap",
                          !.wallMaterial = "previewMaterial",
                          !.wallReceiveShadow = FALSE]
                 e2 == applyLightingState(e1, j1.state)
             IN  IF ~inp.fbRenderOk
                 THEN fallbackFailed([w0 EXCEPT !.eng = fallbackFinally(e2, j1), !.job = j1],
                                     "render error")
                 ELSE [w0 EXCEPT !.eng = e2, !.job = [j1 EXCEPT !.pc = "fbEncode"]]

\* canvasToPngBytes(canvas): a new Uint8Array, distinct from the one stored.
newBytes(e, kind) == <<kind, 1 - e.lastRenderBytes[2]>>

\* `this.lastRenderBytes = await this.canvasToPngBytes(accum)` in the fallback
\* resumes: ok is whether toBlob produced a blob.
fallbackEncoded(w, ok) ==
    IF ok
    THEN LET e1 == [w.eng EXCEPT !.lastRenderBytes = newBytes(w.eng, "fallback")]
         IN  hqReturn([w EXCEPT !.eng = fallbackFinally(e1, w.job)], "FailedFallback", "")
    ELSE fallbackFailed([w EXCEPT !.eng = fallbackFinally(w.eng, w.job)],
                        "Could not encode PNG.")

\* A catch block that reports the failure without trying the fallback.
hqCatchNoFallback(w, message, inp) ==
    hqReturn([w EXCEPT !.job.error = message], "Failed", message)

\* A catch block that takes a timeout for the end of the loop and keeps the
\* accumulated image.
hqCatchKeepsTimedOutImage(w, message, inp) ==
    IF message = "Render timed out."
    THEN hqReturn([w EXCEPT !.job.error = message,
                            !.eng.lastRenderBytes = newBytes(w.eng, "hq")], "Completed", "")
    ELSE renderHighQualityFallback([w EXCEPT !.job.error = message, !.job.i = 0,
                                         !.job.accum = 0, !.job.rendered = {}], inp)

\* The catch block of renderHighQuality, entered with the error thrown in the
\* try block; the loop variable i is out of scope.
hqCatch(w, message, inp) ==
    renderHighQualityFallback([w EXCEPT !.job.error = message, !.job.i = 0,
                                         !.job.accum = 0, !.job.rendered = {}], inp)

\* The end of the loop storing the partial accumulation of a canceled job.
afterLoopStoresPartial(w) ==
    IF w.eng.cancelRender
    THEN hqReturn([w EXCEPT !.eng.lastRenderBytes = newBytes(w.eng, "hq")], "Canceled", "")
    ELSE [w EXCEPT !.job.pc = "encode"]

\* accumCtx.globalAlpha = 1 / n; accumCtx.drawImage(renderer.domElement, ...):
\* source-over compositing of an opaque frame onto the opaque accumulation
\* canvas, for one 8-bit colour channel of one pixel: src / n + dst * (1 - 1 / n),
\* rounded to the nearest level.
drawImage(dst, src, n) == (2 * (src + (n - 1) * dst) + n) \div (2 * n)

\* After the sample loop: canceled = this.cancelRender; encode unless canceled.
afterLoop(w) ==
    IF w.eng.cancelRender
    THEN hqReturn(w, "Canceled", "")
    ELSE [w EXCEPT !.job.pc = "encode"]

\* `const r = Math.random() * jitter` and the three position.set components:
\* the jittered light position for offset k.
Jittered(pos, k) == [pos EXCEPT !.jitter = k]

\* The sample loop without `if (this.cancelRender) break`.
sampleLoopNoCancelPoll(w, inp) ==
    IF w.job.i >= samples THEN afterLoop(w)
    ELSE IF inp.elapsed > maxMs THEN hqCatch(w, "Render timed out.", inp)
    ELSE LET e1 == [w.eng EXCEPT
                      !.spotPosition = Jittered(w.job.old.originalLightPos, inp.jitter)]
         IN  IF ~inp.renderOk
             THEN hqCatch([w EXCEPT !.eng = e1], "render error", inp)
             ELSE [w EXCEPT !.eng = e1, !.job.i = w.job.i + 1, !.job.pc = "yield",
                            !.job.accum = drawImage(@, inp.pixel, samples),
                            !.job.rendered = @ \cup {inp.pixel}]

\* The sample loop polling the cancel flag at every second iteration only.
sampleLoopPollsEverySecond(w, inp) ==
    IF w.job.i >= samples THEN afterLoop(w)
    ELSE IF w.job.i % 2 = 0 /\ w.eng.cancelRender THEN afterLoop(w)
    ELSE IF inp.elapsed > maxMs THEN hqCatch(w, "Render timed out.", inp)
    ELSE LET e1 == [w.eng EXCEPT
                      !.spotPosition = Jittered(w.job.old.originalLightPos, inp.jitter)]
         IN  IF ~inp.renderOk
             THEN hqCatch([w EXCEPT !.eng = e1], "render error", inp)
             ELSE [w EXCEPT !.eng = e1, !.job.i = w.job.i + 1, !.job.pc = "yield",
                            !.job.accum = drawImage(@, inp.pixel, samples),
                            !.job.rendered = @ \cup {inp.pixel}]

\* The sample loop from its head, with i = job.i, up to the next await.
\* inp.renderOk: renderer.render and drawImage of this sample did not throw;
\* inp.jitter: the offset Math.random() picked; inp.elapsed: the reading of
\* performance.now() - startedAt.
sampleLoop(w, inp) ==
    IF w.job.i >= samples THEN afterLoop(w)
    ELSE IF w.eng.cancelRender THEN afterLoop(w)
    ELSE IF inp.elapsed > maxMs THEN hqCatch(w, "Render timed out.", inp)
    ELSE LET e1 == [w.eng EXCEPT
                      !.spotPosition = Jittered(w.job.old.originalLightPos, inp.jitter)]
         IN  IF ~inp.renderOk
             THEN hqCatch([w EXCEPT !.eng = e1], "render error", inp)
             ELSE [w EXCEPT !.eng = e1, !.job.i = w.job.i + 1, !.job.pc = "yield",
                            !.job.accum = drawImage(@, inp.pixel, samples),
                            !.job.rendered = @ \cup {inp.pixel}]

\* A resumption after the encode that reads the cancel flag again.
hqEncodedHonoursCancel(w, ok, inp) ==
    IF w.eng.cancelRender THEN hqReturn(w, "Canceled", "")
    ELSE IF ok
    THEN hqReturn([w EXCEPT !.eng.lastRenderBytes = newBytes(w.eng, "hq")], "Completed", "")
    ELSE hqCatch(w, "Could not encode PNG.", inp)

\* `await this.canvasToPngBytes(accum)` of the accumulated image resumes.
hqEncoded(w, ok, inp) ==
    IF ok
    THEN hqReturn([w EXCEPT !.eng.lastRenderBytes = newBytes(w.eng, "hq")], "Completed", "")
    ELSE hqCatch(w, "Could not encode PNG.", inp)

\* renderHighQuality without `this.cancelRender = false` at its start.
renderHighQualityKeepsCancelFlag(w, state, width, height, inp) ==
    LET e0 == setControlsLocked(w.eng, TRUE)
        j0 == [IdleJob EXCEPT
                 !.state = state, !.width = width, !.height = height,
                 !.old = SaveOld(e0),
                 !.pre = Observed(w.eng),
                 !.foundCancel = w.eng.cancelRender]
        e1 == [e0 EXCEPT !.renderPaused = TRUE, !.animationHandle = FALSE,
                         !.pendingFrames = IF e0.animationHandle THEN @ - 1 ELSE @]
        e2 == [e1 EXCEPT
                 !.wallMaterial = "hqMaterial",
                 !.wallReceiveShadow = TRUE,
                 !.spotCastShadow = TRUE,
                 !.shadowEnabled = TRUE,
                 !.shadowType = "PCFSoftShadowMap",
                 !.mapSize = HqMapSize,
                 !.shadowRadius = HqShadowRadius,
                 !.pixelRatio = HqPixelRatio,
                 !.size = <<width, height>>]
        e3 == applyLightingState(e2, state)
        w1 == [w EXCEPT !.eng = e3, !.job = j0]
    IN  IF ~inp.ctxOk
        THEN hqCatch(w1, "Render canvas unavailable.", inp)
        ELSE sampleLoop(w1, inp)

\* renderHighQuality(state, width, height) from the call to its first await.
\* inp.ctxOk: accum.getContext("2d") gave a context.
\* job.foundCancel: the value of cancelRender the call found.
renderHighQuality(w, state, width, height, inp) ==
    LET e0 == setControlsLocked([w.eng EXCEPT !.cancelRender = FALSE], TRUE)
        j0 == [IdleJob EXCEPT
                 !.state = state, !.width = width, !.height = height,
                 !.old = SaveOld(e0),
                 !.pre = Observed(w.eng),
                 !.foundCancel = w.eng.cancelRender]
        e1 == [e0 EXCEPT !.renderPaused = TRUE, !.animationHandle = FALSE,
                         !.pendingFrames = IF e0.animationHandle THEN @ - 1 ELSE @]
        e2 == [e1 EXCEPT
                 !.wallMaterial = "hqMaterial",
                 !.wallReceiveShadow = TRUE,
                 !.spotCastShadow = TRUE,
                 !.shadowEnabled = TRUE,
                 !.shadowType = "PCFSoftShadowMap",
                 !.mapSize = HqMapSize,
                 !.shadowRadius = HqShadowRadius,
                 !.pixelRatio = HqPixelRatio,
                 !.size = <<width, height>>]
        e3 == applyLightingState(e2, state)
        w1 == [w EXCEPT !.eng = e3, !.job = j0]
    IN  IF ~inp.ctxOk
        THEN hqCatch(w1, "Render canvas unavailable.", inp)
        ELSE sampleLoop(w1, inp)

\* requestCancelRender()
requestCancelRender(e) == [e EXCEPT !.cancelRender = TRUE]

(***************************************************************************)
(* Gobo processor.  An image is named by the path it was decoded from      *)
(* (0: none); a texture is named by a positive number (0: null), and       *)
(* eng.disposed holds the textures dispose() was called on.  A new         *)
(* CanvasTexture gets the least number no field or suspended call refers   *)
(* to.                                                                     *)
(***************************************************************************)
\* The 1024 x 1024 work canvas is rasterized for at most this many textures
\* that are still referred to at once: goboTexture, spot.map, goboMap and the
\* fallback's oldSpotMap.
TextureNames == 1..5

NoGoboState == [scale |-> 0, rotation |-> 0, focus |-> 0, invert |-> FALSE]

\* Number.prototype.toFixed with one decimal digit less than the unit of v:
\* round to the nearest ten, halves away from zero.
toFixed(v) == IF v >= 0 THEN (v + 5) \div 10 ELSE -((5 - v) \div 10)

\* const key = [clamp(scale).toFixed(3), clamp(rotation).toFixed(2),
\*              clamp(focus).toFixed(2), invert ? "1" : "0"].join("|")
goboKey(goboState) ==
    <<toFixed(clamp(goboState.scale, 3000, 30000)),
      toFixed(clamp(goboState.rotation, -180000, 180000)),
      toFixed(clamp(goboState.focus, 0, 8000)),
      IF goboState.invert THEN 1 ELSE 0>>

\* disposeProcessedGobo()
disposeProcessedGobo(e) ==
    IF e.goboTexture # 0
    THEN [e EXCEPT !.disposed = @ \cup {e.goboTexture}, !.goboTexture = 0,
                   !.goboTextureImage = 0]
    ELSE e

NoCall == [arg |-> NoGoboState, repeat |-> FALSE, rastered |-> FALSE]

\* clearGobo().  It ends the run of updateGoboTexture calls eng.lastCall
\* describes.
clearGobo(e) ==
    LET e1 == disposeProcessedGobo([e EXCEPT !.goboImage = 0, !.lastGoboKey = <<>>])
    IN  requestRender([e1 EXCEPT !.hasGobo = 0, !.goboMap = 0, !.spotMap = 0,
                                 !.lastCall = NoCall])

\* new THREE.CanvasTexture(canvas): a texture nothing refers to yet.
\* held: the textures the locals of suspended calls refer to.
newTexture(e, held) ==
    CHOOSE t \in TextureNames :
        /\ t \notin ({e.goboTexture, e.spotMap, e.goboMap} \cup held)
        /\ \A o \in TextureNames :
              o \notin ({e.goboTexture, e.spotMap, e.goboMap} \cup held) => t <= o

\* updateGoboTexture without the comparison of key and lastGoboKey.
updateGoboTextureAlwaysRasters(e, goboState, held) ==
    IF e.goboImage = 0
    THEN clearGobo(e)
    ELSE LET repeat == (e.lastCall.arg = goboState)
             skipped == [arg |-> goboState, repeat |-> repeat, rastered |-> FALSE]
             key == goboKey(goboState)
         IN  IF ~e.goboWorkCtx THEN [e EXCEPT !.lastCall = skipped]
             ELSE LET e1 == disposeProcessedGobo([e EXCEPT !.lastGoboKey = key])
                      tex == newTexture(e1, held)
                  IN  requestRender([e1 EXCEPT
                          !.goboTexture = tex,
                          !.goboTextureImage = e.goboImage,
                          !.disposed = @ \ {tex},
                          !.spotMap = tex,
                          !.hasGobo = 1,
                          !.goboMap = tex,
                          !.lastCall = [arg |-> goboState, repeat |-> repeat, rastered |-> TRUE]])

\* updateGoboTexture(goboState).  eng.lastCall records the call: its argument,
\* whether the previous call since the last clearGobo had the same argument,
\* and whether this call redrew the work canvas and made a new texture.
\* eng.goboTextureImage is the image ctx.drawImage(this.current.goboImage, ...)
\* drew into the canvas of the processed texture (0: there is no texture).
updateGoboTexture(e, goboState, held) ==
    IF e.goboImage = 0
    THEN clearGobo(e)
    ELSE LET repeat == (e.lastCall.arg = goboState)
             skipped == [arg |-> goboState, repeat |-> repeat, rastered |-> FALSE]
             key == goboKey(goboState)
         IN  IF ~e.goboWorkCtx THEN [e EXCEPT !.lastCall = skipped]
             ELSE IF key = e.lastGoboKey /\ e.goboTexture # 0
             THEN requestRender([e EXCEPT !.lastCall = skipped])
             ELSE LET e1 == disposeProcessedGobo([e EXCEPT !.lastGoboKey = key])
                      tex == newTexture(e1, held)
                  IN  requestRender([e1 EXCEPT
                          !.goboTexture = tex,
                          !.goboTextureImage = e.goboImage,
                          !.disposed = @ \ {tex},
                          !.spotMap = tex,
                          !.hasGobo = 1,
                          !.goboMap = tex,
                          !.lastCall = [arg |-> goboState, repeat |-> repeat, rastered |-> TRUE]])

\* The textures the locals of the suspended renderHighQualityFallback hold.
HeldBy(j) == IF j.pc = "fbEncode" THEN {j.fb.oldSpotMap} \ {0} ELSE {}

\* The goboState object literal of loadGobo and applyGoboControls.
GoboStateOf(state) ==
    [scale |-> state.goboScale, rotation |-> state.goboRotation,
     focus |-> state.goboFocus, invert |-> state.goboInvert]

(***************************************************************************)
(* Texture slots.  current[k] is this.current.<k>Texture and hqMap[k] the   *)
(* binding of the slot in hqMaterial (map, normalMap, roughnessMap,        *)
(* metalnessMap, aoMap, displacementMap); baseMap and hasBaseMap are the    *)
(* previewMaterial uniforms.  A texture of a slot is named by a positive    *)
(* number (0: null); disposedTex[k] holds the textures of slot k dispose()  *)
(* was called on.  A load ends with one of LoadOutcomes.                    *)
(***************************************************************************)
TexKinds == {"base", "normal", "roughness", "metalness", "ao", "displacement"}
PbrKinds == {"roughness", "metalness", "ao", "displacement"}
SlotTextureNames == 1..3
LoadOutcomes == {"loaded", "unreadable", "undecodable"}

\* loadTextureFromPath / loadImageFromPath: readBinaryFile gave res.ok false or
\* no bytes ("unreadable"), or the decoder rejected the bytes ("undecodable");
\* both throw.
Threw(outcome) == outcome # "loaded"

\* new THREE.Texture(source) returned by loadTextureFromBytes: a texture that
\* nothing refers to yet.
newSlotTexture(e, kind) ==
    CHOOSE t \in SlotTextureNames :
        /\ t \notin {e.current[kind], e.hqMap[kind]}
        /\ kind = "base" => t # e.baseMap
        /\ \A o \in SlotTextureNames :
              (o \notin {e.current[kind], e.hqMap[kind]} /\ (kind = "base" => o # e.baseMap))
                  => t <= o

\* replaceCurrent that installs the new texture and then calls dispose() on
\* what the slot holds.
replaceCurrentDisposesInstalled(e, kind, texture) ==
    [e EXCEPT !.disposedTex[kind] = @ \cup {texture}, !.current[kind] = texture]

\* `if (this.current.xTexture) this.current.xTexture.dispose();
\*  this.current.xTexture = texture`
replaceCurrent(e, kind, texture) ==
    [e EXCEPT !.disposedTex[kind] =
                  (IF e.current[kind] # 0 THEN @ \cup {e.current[kind]} ELSE @) \ {texture},
              !.current[kind] = texture]

\* loadBaseTexture(filePath) with a decode that ended `outcome`: on a throw
\* the await is never passed.
loadBaseTexture(e, outcome) ==
    IF Threw(outcome) THEN e
    ELSE LET texture == newSlotTexture(e, "base")
             e1 == replaceCurrent(e, "base", texture)
         IN  requestRender([e1 EXCEPT !.baseMap = texture, !.hasBaseMap = 1,
                                      !.hqMap["base"] = texture])

\* loadNormalTexture(filePath)
loadNormalTexture(e, outcome) ==
    IF Threw(outcome) THEN e
    ELSE LET texture == newSlotTexture(e, "normal")
             e1 == replaceCurrent(e, "normal", texture)
         IN  requestRender([e1 EXCEPT !.hqMap["normal"] = texture])

\* loadPbrTexture that drops the slot's texture when the load throws.
loadPbrTextureDropsOnError(e, kind, outcome) ==
    IF Threw(outcome)
    THEN IF kind \in PbrKinds
         THEN [e EXCEPT !.disposedTex[kind] =
                            IF e.current[kind] # 0 THEN @ \cup {e.current[kind]} ELSE @,
                        !.current[kind] = 0, !.hqMap[kind] = 0]
         ELSE e
    ELSE IF kind \in PbrKinds
         THEN LET texture == newSlotTexture(e, kind)
                  e1 == replaceCurrent(e, kind, texture)
              IN  requestRender([e1 EXCEPT !.hqMap[kind] = texture])
         ELSE requestRender(e)

\* loadPbrTexture(filePath, kind): the four branches differ in the slot only.
loadPbrTexture(e, kind, outcome) ==
    IF Threw(outcome) THEN e
    ELSE IF kind \in PbrKinds
         THEN LET texture == newSlotTexture(e, kind)
                  e1 == replaceCurrent(e, kind, texture)
              IN  requestRender([e1 EXCEPT !.hqMap[kind] = texture])
         ELSE requestRender(e)

\* `if (this.current.xTexture) { this.current.xTexture.dispose();
\*                               this.current.xTexture = null; }`
dropCurrent(e, kind) ==
    [e EXCEPT !.disposedTex[kind] = IF e.current[kind] # 0 THEN @ \cup {e.current[kind]} ELSE @,
              !.current[kind] = 0]

\* clearNormalTexture()
clearNormalTexture(e) ==
    requestRender([dropCurrent(e, "normal") EXCEPT !.hqMap["normal"] = 0])

\* clearBaseTexture()
clearBaseTexture(e) ==
    requestRender([dropCurrent(e, "base") EXCEPT
                     !.baseMap = 0, !.hasBaseMap = 0, !.hqMap["base"] = 0])

\* clearPbrTextures(): keys.forEach over the four slots, then the four bindings.
clearPbrTextures(e) ==
    LET e1 == dropCurrent(dropCurrent(dropCurrent(dropCurrent(e,
                  "roughness"), "metalness"), "ao"), "displacement")
    IN  requestRender([e1 EXCEPT
            !.hqMap = [k \in TexKinds |-> IF k \in PbrKinds THEN 0 ELSE @[k]]])

\* loadGoboImage(filePath, goboState): the image decoded from path filePath.
loadGoboImage(e, filePath, goboState, outcome, held) ==
    IF Threw(outcome) THEN e
    ELSE updateGoboTexture([e EXCEPT !.goboImage = filePath], goboState, held)

\* applyTiling(scale) and setDisplacementScale(scale): the repeat and the
\* displacement scale are not part of this state; both end in requestRender().
applyTiling(e) == requestRender(e)
setDisplacementScale(e) == requestRender(e)

(***************************************************************************)
(* The UI's load functions, from the await of the engine call on.  A       *)
(* pending call is a record [kind, path, goboState].                       *)
(***************************************************************************)
\* loadBaseTexture(pathValue) of ui.js
uiLoadBaseTexture(w, pathValue, outcome) ==
    LET e1 == loadBaseTexture(w.eng, outcome)
    IN  IF Threw(outcome)
        THEN [w EXCEPT !.eng = e1,
                       !.ui = setStatus(w.ui,
                                "Could not load that base texture. Please use PNG/JPG/JPEG.", TRUE)]
        ELSE [w EXCEPT !.eng = applyTiling(e1),
                       !.ui = setStatus([w.ui EXCEPT !.state.texturePath["base"] = pathValue],
                                        "Base texture loaded.", FALSE)]

\* loadNormalMap(pathValue)
loadNormalMap(w, pathValue, outcome) ==
    LET e1 == loadNormalTexture(w.eng, outcome)
    IN  IF Threw(outcome)
        THEN [w EXCEPT !.eng = e1,
                       !.ui = setStatus(w.ui,
                                "Could not load that normal map. Supported: EXR, PNG, JPG.", TRUE)]
        ELSE [w EXCEPT !.eng = applyTiling(e1),
                       !.ui = setStatus([w.ui EXCEPT !.state.texturePath["normal"] = pathValue],
                                        "Normal map loaded.", FALSE)]

\* loadPbrMap(pathValue, kind); the status texts are `${kind} map loaded.` and
\* `Could not load ${kind} map. ...`
loadPbrMap(w, pathValue, kind, outcome) ==
    LET e1 == loadPbrTexture(w.eng, kind, outcome)
    IN  IF Threw(outcome)
        THEN [w EXCEPT !.eng = e1,
                       !.ui = setStatus(w.ui, <<"Could not load map.", kind>>, TRUE)]
        ELSE [w EXCEPT !.eng = setDisplacementScale(applyTiling(e1)),
                       !.ui = setStatus([w.ui EXCEPT !.state.texturePath[kind] = pathValue],
                                        <<"map loaded.", kind>>, FALSE)]

\* loadGobo(pathValue); goboState is the object literal built when the call
\* was made.
loadGobo(w, pathValue, goboState, outcome) ==
    LET e1 == loadGoboImage(w.eng, pathValue, goboState, outcome, HeldBy(w.job))
    IN  IF Threw(outcome)
        THEN [w EXCEPT !.eng = e1,
                       !.ui = setStatus(w.ui,
                                "Could not load that gobo. Please use a black-and-white image.", TRUE)]
        ELSE [w EXCEPT !.eng = e1,
                       !.ui = setStatus([w.ui EXCEPT !.state.goboPath = pathValue],
                                        "Gobo loaded.", FALSE)]

\* The pending call `l` resumes with the outcome of its load.
loadResumes(w, l, outcome) ==
    CASE l.kind = "gobo" -> loadGobo(w, l.path, l.goboState, outcome)
      [] l.kind = "base" -> uiLoadBaseTexture(w, l.path, outcome)
      [] l.kind = "normal" -> loadNormalMap(w, l.path, outcome)
      [] OTHER -> loadPbrMap(w, l.path, l.kind, outcome)

\* applyGoboControls without clearTimeout(goboUpdateTimer).
applyGoboControlsKeepsTimer(w, immediate) ==
    LET u1 == [w.ui EXCEPT !.goboUpdateTimer = FALSE]
    IN  IF immediate
        THEN [w EXCEPT !.ui = u1,
                       !.eng = updateGoboTexture(w.eng, GoboStateOf(u1.state), HeldBy(w.job))]
        ELSE [w EXCEPT !.ui = [u1 EXCEPT !.goboUpdateTimer = TRUE,
                                         !.pendingTimers = Min(2, @ + 1)]]

\* applyGoboControls(immediate = false).  ui.pendingTimers counts the host's
\* timers that setTimeout has set here and that have neither fired nor been
\* cleared.
applyGoboControls(w, immediate) ==
    LET u1 == IF w.ui.goboUpdateTimer
              THEN [w.ui EXCEPT !.goboUpdateTimer = FALSE, !.pendingTimers = @ - 1]
              ELSE w.ui
    IN  IF immediate
        THEN [w EXCEPT !.ui = u1,
                       !.eng = updateGoboTexture(w.eng, GoboStateOf(u1.state), HeldBy(w.job))]
        ELSE [w EXCEPT !.ui = [u1 EXCEPT !.goboUpdateTimer = TRUE, !.pendingTimers = @ + 1]]

\* The callback of the 40 ms timer set by applyGoboControls.
goboTimerCallback(w) ==
    [w EXCEPT !.ui.goboUpdateTimer = FALSE,
              !.ui.pendingTimers = @ - 1,
              !.eng = updateGoboTexture(w.eng, GoboStateOf(w.ui.state), HeldBy(w.job))]

(***************************************************************************)
(* Initial state: bootstrap() has run with START_WITH_BLANK_SLATE, so the  *)
(* engine is constructed, no texture or gobo is loaded, the lighting state *)
(* has been pushed once and the handlers are bound; the user has then     *)
(* moved the haze density slider to 0.35.                                  *)
(***************************************************************************)
InitState ==
    [throwDistance |-> DefaultThrow, hazeEnabled |-> FALSE, hazeDensity |-> DefaultHazeDensity,
     lux |-> 900, azimuth |-> 0, elevation |-> 18, beamAngle |-> 44, softness |-> 350,
     ambientFill |-> 2000, hazeHeight |-> 1200, hazeQuality |-> "Medium",
     houseLightIntensity |-> 8, houseLightColorHex |-> 16773590,
     lightColorHex |-> 16766632, gelHex |-> 16777215,
     goboScale |-> 10000, goboRotation |-> 0, goboFocus |-> 500, goboInvert |-> FALSE,
     goboPath |-> 0, texturePath |-> [k \in TexKinds |-> 0],
     renderResolution |-> "1920x1080"]

\* The state file of the main process ("state:save" / "state:load"): not
\* written yet, or the snapshot last saved.
NoStateFile ==
    [written |-> FALSE, state |-> InitState,
     camera |-> [isNull |-> TRUE, position |-> <<>>, target |-> <<>>]]

InitUi ==
    [state |-> InitState, isRendering |-> FALSE, hqDisabled |-> FALSE, cancelDisabled |-> TRUE,
     goboUpdateTimer |-> FALSE, pendingTimers |-> 0, status |-> [text |-> "", isError |-> FALSE],
     stateFile |-> NoStateFile,
     loadingDepth |-> 0, loadingFailsafeTimer |-> FALSE, overlayHidden |-> TRUE]

\* The LightingRenderer constructor, then clearGobo() and pushLightingToRenderer()
\* from bootstrap.
InitEng ==
    applyLightingState(
      [cancelRender |-> FALSE, lastRenderBytes |-> <<"null", 0>>,
       frameRequested |-> TRUE, animationHandle |-> TRUE, pendingFrames |-> 1,
       renderPaused |-> FALSE, hazeAnimating |-> FALSE, controlsEnabled |-> TRUE,
       framesInJob |-> FALSE,
       goboImage |-> 0, goboTexture |-> 0, goboTextureImage |-> 0,
       lastGoboKey |-> <<>>, goboWorkCtx |-> TRUE,
       lastCall |-> NoCall,
       disposed |-> {},
       current |-> [k \in TexKinds |-> 0], hqMap |-> [k \in TexKinds |-> 0],
       baseMap |-> 0, hasBaseMap |-> 0, disposedTex |-> [k \in TexKinds |-> {}],
       spotMap |-> 0, hasGobo |-> 0, goboMap |-> 0,
       spotCastShadow |-> TRUE, spotPosition |-> NoPosition,
       mapSize |-> PreviewMapSize, shadowRadius |-> PreviewShadowRadius,
       shadowEnabled |-> TRUE, shadowType |-> "PCFSoftShadowMap",
       pixelRatio |-> DevicePixelRatio, size |-> InitCanvasSize,
       wallMaterial |-> "hqMaterial", wallReceiveShadow |-> FALSE,
       light |-> DerivedLighting(LightingOf(InitState)),
       camera |-> [position |-> [x |-> 0, y |-> 110, z |-> 320],
                   target |-> [x |-> 0, y |-> 100, z |-> 0]],
       uniforms |-> [throwDistance |-> 0, hazeEnabled |-> 0, hazeDensity |-> 0]],
      LightingOf(InitState))

\* The state after the user has set the haze checkbox to b.
InitWithHaze(b) ==
    LET u == [InitUi EXCEPT !.state.hazeEnabled = b]
    IN  /\ ui = u
        /\ eng = pushLightingToRenderer(InitEng, u)
        /\ job = IdleJob
        /\ loads = EmptyBag

Init == \E b \in BOOLEAN : InitWithHaze(b)

World == [eng |-> eng, job |-> job, ui |-> ui]

\* The name of texture t of slot `kind` when the slot's current texture is
\* named 1 and the others keep their order.
Renamed(e, kind, t) ==
    LET c == e.current[kind]
    IN  IF t = 0 \/ c = 0 THEN t
        ELSE IF t = c THEN 1
        ELSE IF t < c THEN t + 1
        ELSE t

\* The references to gobo textures, in a fixed order.
GoboRefs(e, j) == <<e.goboTexture, e.spotMap, e.goboMap, j.fb.oldSpotMap>>

\* The name of gobo texture t when the textures referred to are numbered in
\* the order of GoboRefs.
GoboRenamed(e, j, t) ==
    LET refs == GoboRefs(e, j)
        first == CHOOSE i \in 1..Len(refs) :
                    refs[i] = t /\ \A k \in 1..(i - 1) : refs[k] # t
    IN  IF t = 0 THEN 0
        ELSE 1 + Cardinality({refs[k] : k \in 1..(first - 1)} \ {0})

\* Texture names are arbitrary and a disposed texture that no field and no
\* suspended call refers to any more is garbage: the state forgets such
\* textures, numbers the gobo textures in the order of GoboRefs and names the
\* current texture of every slot 1.
Collected(e, j) ==
    [e EXCEPT
       !.goboTexture = GoboRenamed(e, j, @),
       !.spotMap = GoboRenamed(e, j, @),
       !.goboMap = GoboRenamed(e, j, @),
       !.disposed = {GoboRenamed(e, j, t) :
                        t \in @ \cap {e.goboTexture, e.spotMap, e.goboMap, j.fb.oldSpotMap}},
       !.current = [k \in TexKinds |-> Renamed(e, k, e.current[k])],
       !.hqMap = [k \in TexKinds |-> Renamed(e, k, e.hqMap[k])],
       !.baseMap = Renamed(e, "base", e.baseMap),
       !.disposedTex =
           [k \in TexKinds |->
              {Renamed(e, k, t) :
                 t \in e.disposedTex[k] \cap
                        ({e.current[k], e.hqMap[k]} \cup
                         (IF k = "base" THEN {e.baseMap} ELSE {}))}]]

\* The variables take the fields of world w, a value computed once.
Becomes(w) ==
    \E v \in {w} :
        /\ eng' = Collected(v.eng, v.job)
        /\ job' = [v.job EXCEPT !.fb.oldSpotMap = GoboRenamed(v.eng, v.job, @)]
        /\ ui' = v.ui

\* What the host decides during one synchronous run of the job.  An input
\* that the run cannot read is fixed: the fallback's inputs when nothing
\* throws, fbRenderOk when the fallback has no context.
AllJobInputs ==
    [ctxOk : BOOLEAN, renderOk : BOOLEAN, fbCtxOk : BOOLEAN, fbRenderOk : BOOLEAN,
     jitter : 1..MaxJitter, pixel : {255},
     elapsed : {0} \cup ((maxMs - MaxOver + 1)..(maxMs + MaxOver))]

JobInputs == {inp \in AllJobInputs : ~inp.fbCtxOk => inp.fbRenderOk}

\* A run that reads the clock and renders a sample reads the fallback's
\* inputs only when one of them fails, and renders no sample after a timeout.
LoopInputs ==
    {inp \in JobInputs :
        /\ (inp.ctxOk /\ inp.renderOk /\ inp.elapsed <= maxMs) => (inp.fbCtxOk /\ inp.fbRenderOk)
        /\ (inp.elapsed > maxMs \/ ~inp.ctxOk) => inp.renderOk}

\* The inputs of a run that starts a job: the first reading of the clock is
\* taken right after startedAt.
StartInputs == {inp \in LoopInputs : inp.elapsed = 0}

\* The inputs of a run that resumes the sample loop: the accumulation canvas
\* has its context.
ResumeInputs == {inp \in LoopInputs : inp.ctxOk}

\* The inputs of a run that resumes after the PNG encode of the accumulated
\* image: no sample is rendered and the clock is not read.
EncodeInputs ==
    {inp \in JobInputs : inp.ctxOk /\ inp.renderOk /\ inp.elapsed = 0 /\ inp.jitter = 1}

\* The click handler without `if (isRendering) return`.
hqRenderButtonClickUnguarded(w, inp) ==
    LET u1 == setStatus(setBusyRenderUI(w.ui, TRUE), "Rendering high quality still...", FALSE)
        res == parseResolution(w.ui.state.renderResolution)
    IN  renderHighQuality([w EXCEPT !.ui = u1], LightingOf(w.ui.state),
                          res.width, res.height, inp)

\* The hqRenderButton click handler up to `await engine.renderHighQuality`.
hqRenderButtonClick(w, inp) ==
    IF w.ui.isRendering THEN w
    ELSE LET u1 == setStatus(setBusyRenderUI(w.ui, TRUE), "Rendering high quality still...", FALSE)
             res == parseResolution(w.ui.state.renderResolution)
         IN  renderHighQuality([w EXCEPT !.ui = u1], LightingOf(w.ui.state),
                               res.width, res.height, inp)

(***************************************************************************)
(* Actions: the high-quality job.                                          *)
(***************************************************************************)
\* hqRenderButton click: the handler up to `await engine.renderHighQuality`.
\* The button is disabled while a job runs; a click that gets through returns
\* at `if (isRendering) return`.
HqRenderClick ==
    /\ ~ui.isRendering
    /\ \E inp \in StartInputs : Becomes(hqRenderButtonClick(World, inp))
    /\ UNCHANGED loads

\* A click event on hqRenderButton that is dispatched while a job runs.
HqRenderClickWhileBusy ==
    /\ ui.isRendering
    /\ \E inp \in StartInputs : Becomes(hqRenderButtonClick(World, inp))
    /\ UNCHANGED loads

\* cancelRenderButton click
CancelRenderClick ==
    /\ ui.isRendering
    /\ eng' = requestCancelRender(eng)
    /\ UNCHANGED <<job, ui, loads>>

\* The setTimeout(resolve, 0) after a sample fires.
SampleYieldResumes ==
    /\ job.pc = "yield"
    /\ \E inp \in ResumeInputs : Becomes(sampleLoop(World, inp))
    /\ UNCHANGED loads

\* canvas.toBlob and blob.arrayBuffer of the accumulated image complete.
EncodeResumes ==
    /\ job.pc = "encode"
    /\ \E inp \in EncodeInputs, ok \in BOOLEAN : Becomes(hqEncoded(World, ok, inp))
    /\ UNCHANGED loads

\* canvas.toBlob and blob.arrayBuffer of the fallback image complete.
FallbackEncodeResumes ==
    /\ job.pc = "fbEncode"
    /\ \E ok \in BOOLEAN : Becomes(fallbackEncoded(World, ok))
    /\ UNCHANGED loads

(***************************************************************************)
(* Actions: host events of the interactive view.                           *)
(***************************************************************************)
\* The animation-frame callback runs.
AnimationFrame ==
    /\ eng.pendingFrames > 0
    /\ \E cameraMoved \in BOOLEAN : eng' = animate(eng, cameraMoved, job.pc # "idle")
    /\ UNCHANGED <<job, ui, loads>>

\* The ResizeObserver reports a new client size of the viewport.
Resize ==
    /\ \E sz \in CanvasSizes : eng' = resize(eng, sz[1], sz[2])
    /\ UNCHANGED <<job, ui, loads>>

\* distanceSlider input: state.throwDistance = clamp(v, 1.2, 8); push.
DistanceInput ==
    /\ \E v \in UiThrows :
         LET u1 == [ui EXCEPT !.state.throwDistance = clamp(v, ThrowMin, ThrowMax)]
         IN  ui' = u1 /\ eng' = pushLightingToRenderer(eng, u1)
    /\ UNCHANGED <<job, loads>>

JobNext ==
    \/ HqRenderClick
    \/ CancelRenderClick
    \/ SampleYieldResumes
    \/ EncodeResumes
    \/ FallbackEncodeResumes

Next ==
    \/ JobNext
    \/ AnimationFrame
    \/ Resize
    \/ DistanceInput

Spec == Init /\ [][Next]_vars

(***************************************************************************)
(* The job, the cancel button and the frame callback, with the scheduling  *)
(* the host guarantees: a timer of 0 ms fires and a PNG encode completes.  *)
(***************************************************************************)
LiveNext == JobNext \/ AnimationFrame

LiveSpec ==
    /\ Init /\ [][LiveNext]_vars
    /\ WF_vars(SampleYieldResumes)
    /\ WF_vars(EncodeResumes)
    /\ WF_vars(FallbackEncodeResumes)

(***************************************************************************)
(* Render requests: the job, the frame callback and a control, haze off.   *)
(* The host runs a pending animation-frame callback with the next display  *)
(* frame; a callback that is pending again and again is eventually run.    *)
(***************************************************************************)
FrameNext == JobNext \/ AnimationFrame \/ DistanceInput

FrameSpec ==
    /\ InitWithHaze(FALSE) /\ [][FrameNext]_vars
    /\ WF_vars(SampleYieldResumes)
    /\ WF_vars(EncodeResumes)
    /\ WF_vars(FallbackEncodeResumes)
    /\ SF_vars(AnimationFrame)

(***************************************************************************)
(* Actions: gobo and texture loading, gobo controls.                       *)
(***************************************************************************)
\* Number of load calls awaiting their file at once.
MaxLoads == 1
\* The files the user picks: a path names the image it holds.
Paths == {1, 2}
\* Values typed into goboScaleNumber, in 1/10000: 1.0, 1.0004 and 4.5.
GoboScales == {10000, 10004, 45000}

PendingLoad(kind, path) ==
    [kind |-> kind, path |-> path,
     goboState |-> IF kind = "gobo" THEN GoboStateOf(ui.state) ELSE NoGoboState]

\* pickFile resolves with a path and the UI load function of `kind` runs up to
\* its await of the engine call.
LoadStarts(kinds, paths) ==
    /\ BagCardinality(loads) < MaxLoads
    /\ \E kind \in kinds, path \in paths :
         loads' = loads (+) SetToBag({PendingLoad(kind, path)})
    /\ UNCHANGED <<eng, job, ui>>

\* The pending call l resumes with `outcome`.
LoadEndsWith(l, outcome) ==
    /\ BagIn(l, loads)
    /\ Becomes(loadResumes(World, l, outcome))
    /\ loads' = loads (-) SetToBag({l})

LoadEnds(kinds) ==
    \E l \in BagToSet(loads), outcome \in LoadOutcomes :
        l.kind \in kinds /\ LoadEndsWith(l, outcome)

\* goboScaleSlider / goboScaleNumber input
GoboScaleInput ==
    /\ \E v \in GoboScales :
         Becomes(applyGoboControls(
                   [World EXCEPT !.ui.state.goboScale = clamp(v, 3000, 30000)], FALSE))
    /\ UNCHANGED loads

\* The 40 ms timer of applyGoboControls fires.
GoboTimerFires ==
    /\ ui.pendingTimers > 0
    /\ Becomes(goboTimerCallback(World))
    /\ UNCHANGED loads

\* goboInvert change: the checkbox has been toggled.
GoboInvertChange ==
    /\ Becomes(applyGoboControls(
                 [World EXCEPT !.ui.state.goboInvert = ~ui.state.goboInvert], TRUE))
    /\ UNCHANGED loads

\* clearGobo click
ClearGoboClick ==
    /\ Becomes([World EXCEPT
                  !.eng = clearGobo(eng),
                  !.ui = setStatus([ui EXCEPT !.state.goboPath = 0], "Gobo cleared.", FALSE)])
    /\ UNCHANGED loads

GoboLoadStarts == LoadStarts({"gobo"}, Paths)
OneGoboLoadStarts == LoadStarts({"gobo"}, {1})
GoboLoadEnds == LoadEnds({"gobo"})

(***************************************************************************)
(* The gobo processor with its controls.                                   *)
(***************************************************************************)
GoboNext ==
    \/ GoboLoadStarts
    \/ GoboLoadEnds
    \/ GoboScaleInput
    \/ GoboTimerFires
    \/ GoboInvertChange
    \/ ClearGoboClick

GoboSpec == InitWithHaze(FALSE) /\ [][GoboNext]_vars

(***************************************************************************)
(* The gobo processor while high-quality jobs run.                         *)
(***************************************************************************)
GoboJobNext ==
    \/ JobNext
    \/ OneGoboLoadStarts
    \/ GoboLoadEnds
    \/ GoboInvertChange
    \/ ClearGoboClick

GoboJobSpec == InitWithHaze(FALSE) /\ [][GoboJobNext]_vars

(***************************************************************************)
(* Loading into the texture slots and the gobo slot.                       *)
(***************************************************************************)
\* The slots the user loads into.
LoadKinds == {"base", "normal", "roughness", "gobo"}

TextureLoadStarts == LoadStarts(LoadKinds, Paths)
TextureLoadEnds == LoadEnds(LoadKinds)

TexNext == TextureLoadStarts \/ TextureLoadEnds

TexSpec == InitWithHaze(FALSE) /\ [][TexNext]_vars

(***************************************************************************)
(* The texture slots with their load and clear buttons, several loads in   *)
(* flight at once.                                                         *)
(***************************************************************************)
\* Number of load calls into the texture slots awaiting their file at once.
MaxSlotLoads == 2
\* The slots the load buttons of this specification fill.
SlotKinds == {"base", "normal", "roughness"}

\* A load button of a texture slot: as LoadStarts, up to MaxSlotLoads calls.
SlotLoadStarts ==
    /\ BagCardinality(loads) < MaxSlotLoads
    /\ \E kind \in SlotKinds, path \in Paths :
         loads' = loads (+) SetToBag({PendingLoad(kind, path)})
    /\ UNCHANGED <<eng, job, ui>>

SlotLoadEnds == LoadEnds(SlotKinds)

\* clearBaseTexture click
ClearBaseTextureClick ==
    /\ Becomes([World EXCEPT
                  !.eng = clearBaseTexture(eng),
                  !.ui = setStatus([ui EXCEPT !.state.texturePath["base"] = 0],
                                   "Base texture cleared.", FALSE)])
    /\ UNCHANGED loads

\* clearNormalMap click
ClearNormalMapClick ==
    /\ Becomes([World EXCEPT
                  !.eng = clearNormalTexture(eng),
                  !.ui = setStatus([ui EXCEPT !.state.texturePath["normal"] = 0],
                                   "Normal map cleared.", FALSE)])
    /\ UNCHANGED loads

\* clearPbrMaps click
ClearPbrMapsClick ==
    /\ Becomes([World EXCEPT
                  !.eng = clearPbrTextures(eng),
                  !.ui = setStatus(
                           [ui EXCEPT !.state.texturePath =
                                         [k \in TexKinds |-> IF k \in PbrKinds THEN 0 ELSE @[k]]],
                           "PBR maps cleared.", FALSE)])
    /\ UNCHANGED loads

SlotNext ==
    \/ SlotLoadStarts
    \/ SlotLoadEnds
    \/ ClearBaseTextureClick
    \/ ClearNormalMapClick
    \/ ClearPbrMapsClick

SlotSpec == InitWithHaze(FALSE) /\ [][SlotNext]_vars

(***************************************************************************)
(* The photometric converter on its own: applyLightingState called with    *)
(* any state object, and the lighting controls of the UI.                  *)
(***************************************************************************)
\* The numeric fields applyLightingState reads, with the range it clamps to
\* (azimuth and elevation are not clamped).
ClampRange ==
    [throwDistance |-> <<ThrowMin, ThrowMax>>, beamAngle |-> <<10, 80>>,
     softness |-> <<0, 1000>>, ambientFill |-> <<0, 10000>>,
     hazeDensity |-> <<0, 1000>>, hazeHeight |-> <<0, 2400>>,
     lux |-> <<1, 4000>>, houseLightIntensity |-> <<0, 500>>]

NonFinite == {NaN, PosInfinity, NegInfinity, Undefined}

\* Values of a field of the state object passed to applyLightingState: in
\* range, out of range, not finite or missing.
RawValues(field) ==
    CASE field = "azimuth" -> {-180, -80, 0, 60, 90} \cup NonFinite
      [] field = "elevation" -> {-30, 0, 18, 70, 180} \cup NonFinite
      [] OTHER ->
           LET lo == ClampRange[field][1]
               hi == ClampRange[field][2]
           IN  {lo - 1000, lo, (lo + hi) \div 2, hi, hi + 1000} \cup NonFinite

\* State objects the call starts from: the defaults, the light facing the
\* wall, and the brightest and the dimmest light.
BaseStates ==
    LET d == LightingOf(InitState)
    IN  {d,
         [d EXCEPT !.azimuth = 0, !.elevation = 0],
         [d EXCEPT !.lux = 4000, !.throwDistance = ThrowMax, !.azimuth = 90],
         [d EXCEPT !.lux = 1, !.throwDistance = ThrowMin, !.azimuth = 0, !.elevation = 0]}

\* The state objects passed: a base state with one numeric field replaced,
\* or with another haze quality, or with haze enabled; and the defaults with
\* every combination of the haze checkbox, density and quality.
LightingInputs ==
    UNION {
        UNION {{[base EXCEPT ![f] = v] : v \in RawValues(f)} :
                  f \in DOMAIN ClampRange \cup {"azimuth", "elevation"}}
        \cup {[base EXCEPT !.hazeQuality = q] : q \in {"Low", "Medium", "High", "Ultra"}}
        \cup {[base EXCEPT !.hazeEnabled = TRUE]}
        : base \in BaseStates}
    \cup [hazeEnabled : BOOLEAN, hazeDensity : {0, 350, 1000},
          hazeQuality : {"Low", "Medium", "High"},
          throwDistance : {DefaultThrow}, azimuth : {0}, elevation : {18}, beamAngle : {44},
          softness : {350}, ambientFill : {2000}, hazeHeight : {1200}, lux : {900},
          houseLightIntensity : {8}, houseLightColorHex : {16773590},
          finalLightColorHex : {16766632}]

\* engine.applyLightingState(state) with any state object.
ApplyLightingStateCall ==
    /\ \E s \in LightingInputs : eng' = applyLightingState(eng, s)
    /\ UNCHANGED <<job, ui, loads>>

\* The ranges the lux, azimuth and elevation controls clamp to, and the
\* numbers typed into them.
ControlRange == [lux |-> <<1, 4000>>, azimuth |-> <<-80, 80>>, elevation |-> <<-30, 70>>]
ControlValues == [lux |-> {900, 5000}, azimuth |-> {-180, 0}, elevation |-> {0, 18}]

\* luxSlider / azimuthSlider / elevationSlider input:
\* state.x = clamp(v, lo, hi); pushLightingToRenderer()
LightingControlInput ==
    /\ \E f \in DOMAIN ControlRange : \E v \in ControlValues[f] :
         LET u1 == [ui EXCEPT !.state[f] = clamp(v, ControlRange[f][1], ControlRange[f][2])]
         IN  ui' = u1 /\ eng' = pushLightingToRenderer(eng, u1)
    /\ UNCHANGED <<job, loads>>

LightNext == ApplyLightingStateCall \/ LightingControlInput

LightSpec == InitWithHaze(FALSE) /\ [][LightNext]_vars

(***************************************************************************)
(* The colour controls: light colour, gel and house light colour.          *)
(***************************************************************************)
\* Texts entered in the light colour field: #ffd6a8, #000000, #ffffff,
\* #0180ff, #7f7f7f, #c86432 and a text that is no colour.
LightColors == {16766632, 0, 16777215, 98559, 8355711, 13132850, InvalidHex}
\* GEL_PRESETS[i].hex: #ffffff, #ffd8a6, #ff5a5a, #3f5dff, #a4c7ff, #ffd875,
\* #4f9f66
GelPresets == {16777215, 16767142, 16734810, 4152831, 10799103, 16767093, 5218150}
\* Texts entered in the gel colour field.
GelColors == {16777215, 8421504, 65280, InvalidHex}
\* Texts entered in the house light colour field: #fff1d6, #ffffff, #101010
\* and a text that is no colour.
HouseLightColors == {16773590, 16777215, 1052688, InvalidHex}

\* lightColorHex change / lightColorPicker input
LightColorChange ==
    /\ \E text \in LightColors :
         LET u1 == [ui EXCEPT !.state.lightColorHex = sanitizeHex(text, @)]
         IN  ui' = u1 /\ eng' = pushLightingToRenderer(eng, u1)
    /\ UNCHANGED <<job, loads>>

\* houseLightColorHex change / houseLightColorPicker input
HouseLightColorChange ==
    /\ \E text \in HouseLightColors :
         LET u1 == [ui EXCEPT !.state.houseLightColorHex = sanitizeHex(text, @)]
         IN  ui' = u1 /\ eng' = pushLightingToRenderer(eng, u1)
    /\ UNCHANGED <<job, loads>>

\* gelPreset change: the preset is found in GEL_PRESETS
GelPresetChange ==
    /\ \E hex \in GelPresets :
         LET u1 == [ui EXCEPT !.state.gelHex = hex]
         IN  ui' = u1 /\ eng' = pushLightingToRenderer(eng, u1)
    /\ UNCHANGED <<job, loads>>

\* gelHex change / gelColorPicker input
GelHexChange ==
    /\ \E text \in GelColors :
         LET u1 == [ui EXCEPT !.state.gelHex = sanitizeHex(text, @)]
         IN  ui' = u1 /\ eng' = pushLightingToRenderer(eng, u1)
    /\ UNCHANGED <<job, loads>>

ColorNext ==
    \/ LightColorChange
    \/ HouseLightColorChange
    \/ GelPresetChange
    \/ GelHexChange

ColorSpec == InitWithHaze(FALSE) /\ [][ColorNext]_vars

(***************************************************************************)
(* The camera: applyCameraState called with any camera state object, and   *)
(* the user orbiting the view.                                             *)
(***************************************************************************)
\* The position and target arrays of the camera state objects passed: arrays
\* of three numbers, and arrays of another length.
PositionArrays ==
    {<<0, 110, 320>>, <<0, 100, 300>>, <<0, 100, 50>>, <<0, 100, 1000>>, <<300, 500, 0>>,
     <<600, 900, 0>>, <<0, -200, 0>>, <<0, 100, 0>>, <<100, 400, 0>>, <<0, 110>>, <<>>}
TargetArrays == {<<0, 100, 0>>, <<100, 100, 0>>, <<0, 200, 0>>, <<0, 0, 1000>>, <<0, 100>>}

CameraInputs ==
    {[isNull |-> TRUE, position |-> <<>>, target |-> <<>>]}
    \cup [isNull : {FALSE}, position : PositionArrays, target : TargetArrays]

\* engine.applyCameraState(cameraState)
ApplyCameraStateCall ==
    /\ \E cameraState \in CameraInputs : eng' = applyCameraState(eng, cameraState)
    /\ UNCHANGED <<job, ui, loads>>

\* The positions the user orbits and dollies the camera to.
OrbitPositions ==
    {[x |-> 0, y |-> 110, z |-> 320], [x |-> 200, y |-> 100, z |-> 0],
     [x |-> 0, y |-> 300, z |-> -400]}

\* A pointer or wheel event on the canvas: OrbitControls moves the camera
\* about the target, within its limits, and dispatches "change", whose
\* listener calls requestRender().
CameraOrbit ==
    /\ eng.controlsEnabled
    /\ \E p \in OrbitPositions :
         /\ withinLimits(offsetOf([eng.camera EXCEPT !.position = p]))
         /\ eng' = requestRender([eng EXCEPT !.camera.position = p])
    /\ UNCHANGED <<job, ui, loads>>

CameraNext == ApplyCameraStateCall \/ CameraOrbit

CameraSpec == InitWithHaze(FALSE) /\ [][CameraNext]_vars

(***************************************************************************)
(* The gobo controls on a loaded gobo: the debounced sliders and the       *)
(* immediate invert checkbox, with the scheduling the host guarantees: a   *)
(* timer that stays set fires.                                             *)
(***************************************************************************)
\* The world after bootstrap and one successful loadGobo of path 1.
GoboLoaded ==
    loadGobo([eng |-> pushLightingToRenderer(InitEng, InitUi), job |-> IdleJob, ui |-> InitUi],
             1, GoboStateOf(InitState), "loaded")

InitWithGobo ==
    /\ eng = Collected(GoboLoaded.eng, GoboLoaded.job)
    /\ job = GoboLoaded.job
    /\ ui = GoboLoaded.ui
    /\ loads = EmptyBag

\* Values typed into goboRotationNumber, in 1/1000 degree: 0, 90 and 270.
GoboRotations == {0, 90000, 270000}

\* goboRotationSlider / goboRotationNumber input
GoboRotationInput ==
    /\ \E v \in GoboRotations :
         Becomes(applyGoboControls(
                   [World EXCEPT !.ui.state.goboRotation = clamp(v, -180000, 180000)], FALSE))
    /\ UNCHANGED loads

DebounceNext ==
    \/ GoboScaleInput
    \/ GoboRotationInput
    \/ GoboTimerFires
    \/ GoboInvertChange

DebounceSpec == InitWithGobo /\ [][DebounceNext]_vars /\ WF_vars(GoboTimerFires)

(***************************************************************************)
(* The job with clicks on the render button that arrive while it runs.     *)
(***************************************************************************)
BusyNext == JobNext \/ HqRenderClickWhileBusy

BusySpec == Init /\ [][BusyNext]_vars

(***************************************************************************)
(* The job with calls of requestCancelRender() made while no job runs.     *)
(***************************************************************************)
\* engine.requestCancelRender() called while no job is running.
RequestCancelWhileIdle ==
    /\ job.pc = "idle"
    /\ eng' = requestCancelRender(eng)
    /\ UNCHANGED <<job, ui, loads>>

CancelNext == JobNext \/ RequestCancelWhileIdle

CancelSpec == Init /\ [][CancelNext]_vars

(***************************************************************************)
(* Reload Code: the cog menu action that saves the state and relaunches    *)
(* the app, and the bootstrap of the relaunched app.                       *)
(***************************************************************************)
\* const START_WITH_BLANK_SLATE = true
START_WITH_BLANK_SLATE == TRUE

\* window.appApi.saveState({ ...state, camera: engine.getCameraState() })
saveState(u, e) ==
    [u EXCEPT !.stateFile =
        [written |-> TRUE, state |-> u.state,
         camera |-> [isNull |-> FALSE, position |-> getCameraState(e).position,
                     target |-> getCameraState(e).target]]]

\* The state object bootstrap() starts from: the defaults with empty paths,
\* haze off and no camera on a blank slate, the saved state over the defaults
\* otherwise.
bootstrapState(stateFile) ==
    IF START_WITH_BLANK_SLATE
    THEN [InitState EXCEPT !.texturePath = [k \in TexKinds |-> 0], !.goboPath = 0,
                           !.hazeEnabled = FALSE, !.hazeDensity = 0]
    ELSE IF stateFile.written THEN stateFile.state ELSE InitState

\* state.camera as bootstrap() hands it to engine.applyCameraState.
bootstrapCamera(stateFile) ==
    IF START_WITH_BLANK_SLATE \/ ~stateFile.written
    THEN [isNull |-> TRUE, position |-> <<>>, target |-> <<>>]
    ELSE stateFile.camera

\* bootstrap() of the relaunched app: a new renderer process, whose only
\* inheritance is the state file.
bootstrap(stateFile) ==
    LET u == [InitUi EXCEPT !.state = bootstrapState(stateFile), !.stateFile = stateFile]
    IN  [ui |-> u,
         eng |-> pushLightingToRenderer(applyCameraState(InitEng, bootstrapCamera(stateFile)), u),
         job |-> IdleJob]

\* The cog menu's Reload Code: save the state unless on a blank slate, then
\* app.relaunch() and app.exit(0); the new process runs bootstrap().
ReloadCodeClick ==
    /\ LET u1 == IF ~START_WITH_BLANK_SLATE THEN saveState(ui, eng) ELSE ui
       IN  Becomes(bootstrap(u1.stateFile))
    /\ loads' = EmptyBag

ReloadNext ==
    \/ DistanceInput
    \/ LightingControlInput
    \/ CameraOrbit
    \/ LightColorChange
    \/ ReloadCodeClick

ReloadSpec == InitWithHaze(FALSE) /\ [][ReloadNext]_vars

(***************************************************************************)
(* The loading overlay: load buttons whose calls run inside withLoading,   *)
(* and the 45 s failsafe timer of startLoading.                            *)
(***************************************************************************)
\* Number of withLoading calls awaiting their file at once.
MaxLoaderOps == 2
\* The load buttons of this specification.
LoaderKinds == {"base", "normal"}

\* A withLoading call suspended in fn().  timedOut: the failsafe has fired
\* since the call's startLoading.
LoaderOp(kind, path) ==
    [kind |-> kind, path |-> path, goboState |-> NoGoboState, timedOut |-> FALSE]

\* withLoading(message, fn) up to the await inside fn: startLoading, then the
\* UI load function runs up to its await of the engine call.
withLoadingStarts(w) == [w EXCEPT !.ui = startLoading(w.ui)]

\* withLoading(message, fn) from the await on: fn resumes and returns, then
\* the finally block calls stopLoading.
withLoadingResumes(w, l, outcome) ==
    LET w1 == loadResumes(w, l, outcome)
    IN  [w1 EXCEPT !.ui = stopLoading(w1.ui)]

\* A load button: pickFile resolves with a path and the UI load function is
\* called with showLoader = true.
LoaderLoadStarts ==
    /\ BagCardinality(loads) < MaxLoaderOps
    /\ \E kind \in LoaderKinds, path \in Paths :
         loads' = loads (+) SetToBag({LoaderOp(kind, path)})
    /\ Becomes(withLoadingStarts(World))

\* The pending withLoading call l resumes.
LoaderLoadEnds ==
    \E l \in BagToSet(loads), outcome \in LoadOutcomes :
        /\ Becomes(withLoadingResumes(World, l, outcome))
        /\ loads' = loads (-) SetToBag({l})

\* The calls of bag b, each marked as timed out.
TimedOut(b) ==
    LET ops == {[l EXCEPT !.timedOut = TRUE] : l \in BagToSet(b)}
    IN  [o \in ops |->
           (IF BagIn([o EXCEPT !.timedOut = FALSE], b)
              THEN CopiesIn([o EXCEPT !.timedOut = FALSE], b) ELSE 0)
           + (IF BagIn(o, b) THEN CopiesIn(o, b) ELSE 0)]

\* The failsafe timer of startLoading fires after 45 s.
LoadingFailsafeFires ==
    /\ ui.loadingFailsafeTimer
    /\ Becomes([World EXCEPT
                  !.ui = setStatus(forceHideLoading(ui), "Loading timeout recovered.", TRUE)])
    /\ loads' = TimedOut(loads)

LoaderNext == LoaderLoadStarts \/ LoaderLoadEnds \/ LoadingFailsafeFires

LoaderSpec == InitWithHaze(FALSE) /\ [][LoaderNext]_vars

(***************************************************************************)
(* loadMaterialPackage: a ZIP is extracted and its maps are loaded one     *)
(* after another.  The pending call is a record [kind, step, files]: step  *)
(* 0 awaits extractMaterialPackage, step i awaits the load of slot         *)
(* PackageOrder[i]; files[k] is the extracted path of slot k (0: the ZIP   *)
(* has no such map).                                                       *)
(***************************************************************************)
PackageOrder == <<"base", "normal", "roughness", "metalness", "ao", "displacement">>
NoFiles == [k \in TexKinds |-> 0]
\* What extractMaterialPackage finds in a ZIP: a base colour always, a normal,
\* a roughness and a displacement map or not.
PackageFiles ==
    {[k \in TexKinds |->
        CASE k = "base" -> b [] k = "normal" -> n [] k = "roughness" -> r
          [] k = "displacement" -> d [] OTHER -> 0] :
       b \in Paths, n \in {0, 1}, r \in {0, 2}, d \in {0, 1}}

PackageCall(step, files) == [kind |-> "package", step |-> step, files |-> files]

\* loadMaterialPackage(zipPath) up to the await of extractMaterialPackage.
loadMaterialPackageStarts(w) ==
    [w EXCEPT !.eng = clearPbrTextures(clearNormalTexture(clearBaseTexture(w.eng))),
              !.ui = [startLoading(w.ui) EXCEPT !.state.texturePath = NoFiles]]

\* The loadMaterialPackage click handler after the call returned or threw.
packageReturns(w, threw) ==
    IF threw
    THEN [w EXCEPT !.ui = setStatus(stopLoading(w.ui), "Could not load package.", TRUE)]
    ELSE [w EXCEPT !.eng = setDisplacementScale(applyTiling(w.eng)),
                   !.ui = setStatus(stopLoading(w.ui), "Material package loaded.", FALSE)]

\* loadMaterialPackage from slot PackageOrder[i] on, up to its next await: a
\* map the ZIP lacks empties the stored path (and the normal slot), a map it
\* has is loaded with showLoader = false.  The result is the world and the
\* step the call is suspended at (0: it returned).
RECURSIVE packageContinues(_, _, _)
packageContinues(w, files, i) ==
    IF i > Len(PackageOrder) THEN [w |-> packageReturns(w, FALSE), step |-> 0]
    ELSE LET k == PackageOrder[i]
         IN  IF files[k] # 0 THEN [w |-> w, step |-> i]
             ELSE packageContinues(
                    [w EXCEPT !.ui.state.texturePath[k] = 0,
                              !.eng = IF k = "normal" THEN clearNormalTexture(@) ELSE @],
                    files, i + 1)

\* The load of slot PackageOrder[call.step] resumes: the UI load function
\* catches a failed load, and the path is stored after it returned.
packageLoadResumes(w, call, outcome) ==
    LET k == PackageOrder[call.step]
        w1 == loadResumes(w, [kind |-> k, path |-> call.files[k],
                              goboState |-> NoGoboState], outcome)
    IN  packageContinues([w1 EXCEPT !.ui.state.texturePath[k] = call.files[k]],
                         call.files, call.step + 1)

\* The next pending call of a package, if it has not returned.
PackagePending(r, files) ==
    IF r.step = 0 THEN EmptyBag ELSE SetToBag({PackageCall(r.step, files)})

\* loadMaterialPackage click: pickFile resolved with a ZIP.
MaterialPackageClick ==
    /\ loads = EmptyBag
    /\ Becomes(loadMaterialPackageStarts(World))
    /\ loads' = SetToBag({PackageCall(0, NoFiles)})

\* extractMaterialPackage resolves: { ok: false } makes the call throw.
PackageExtractResumes ==
    /\ BagIn(PackageCall(0, NoFiles), loads)
    /\ \/ /\ Becomes(packageReturns(World, TRUE))
          /\ loads' = EmptyBag
       \/ \E files \in PackageFiles :
             LET r == packageContinues(World, files, 1)
             IN  Becomes(r.w) /\ loads' = PackagePending(r, files)

\* The load of one of the package's maps resumes.
PackageLoadResumes ==
    \E call \in BagToSet(loads), outcome \in LoadOutcomes :
        /\ call.step > 0
        /\ LET r == packageLoadResumes(World, call, outcome)
           IN  Becomes(r.w) /\ loads' = PackagePending(r, call.files)

PackageNext == MaterialPackageClick \/ PackageExtractResumes \/ PackageLoadResumes

PackageSpec == InitWithHaze(FALSE) /\ [][PackageNext]_vars

(***************************************************************************)
(* The accumulation of the job's samples, followed at one colour channel   *)
(* of one pixel: jobs whose renders succeed, with the level the renderer   *)
(* produces for each sample chosen by the scene.                           *)
(***************************************************************************)
\* The levels a sample's frame has at the pixel.
AccumPixels == {0, 128, 255}

AccumInputs ==
    [ctxOk : {TRUE}, renderOk : {TRUE}, fbCtxOk : {TRUE}, fbRenderOk : {TRUE},
     jitter : {1}, elapsed : {0}, pixel : AccumPixels]

\* hqRenderButton click, up to the yield after the first sample.
AccumJobStarts ==
    /\ ~ui.isRendering
    /\ \E inp \in AccumInputs :
         LET u1 == setStatus(setBusyRenderUI(ui, TRUE), "Rendering high quality still...", FALSE)
             res == parseResolution(ui.state.renderResolution)
         IN  Becomes(renderHighQuality([World EXCEPT !.ui = u1], LightingOf(ui.state),
                                       res.width, res.height, inp))
    /\ UNCHANGED loads

\* The setTimeout(resolve, 0) after a sample fires.
AccumSampleResumes ==
    /\ job.pc = "yield"
    /\ \E inp \in AccumInputs : Becomes(sampleLoop(World, inp))
    /\ UNCHANGED loads

AccumNext ==
    \/ AccumJobStarts
    \/ AccumSampleResumes
    \/ EncodeResumes
    \/ FallbackEncodeResumes

AccumSpec == InitWithHaze(FALSE) /\ [][AccumNext]_vars

(***************************************************************************)
(* Properties of the high-quality job.                                     *)
(***************************************************************************)
JobRunning == job.pc # "idle"

\* A cancel request is pending during the yield that follows sample k.
CancelPendingAfter(k) == job.pc = "yield" /\ job.i = k /\ eng.cancelRender

CancelPendingInLoop == \E k \in 1..(samples - 1) : CancelPendingAfter(k)

\* C1: once requestCancelRender has been called during the yield that follows
\* sample k, 1 <= k <= 15, the request stays pending while the job is
\* suspended, and the step that resumes the job returns Canceled, never
\* Completed.
C1_CancelInLoopYieldsCanceled ==
    [][CancelPendingInLoop =>
         \/ (job' = job /\ eng'.cancelRender)
         \/ (job'.pc = "idle" /\ job'.result = "Canceled")]_vars

\* The spec's case: cancellation requested after sample 5 of 16.
C1_Witness == CancelPendingAfter(5) /\ samples = 16

\* The step returns from renderHighQuality: a suspended call ends, or a call
\* is made and ends in the same run.
JobReturns == job'.pc = "idle" /\ (job.pc # "idle" \/ HqRenderClick)

\* The settings in effect when the returning call was made.
PreJob == IF job.pc = "idle" THEN Observed(eng) ELSE job.pre

\* C2: on every exit path of renderHighQuality, the wall material,
\* wall.receiveShadow, spot.castShadow, shadow map size and radius, the
\* renderer's shadow-map flag and type, pixel ratio, render size and the spot
\* position equal, when the call returns, the values they had when it was made.
C2_SettingsRestoredOnEveryExit == [][JobReturns => Observed(eng') = PreJob]_vars

\* C3: when the accumulation canvas has no 2d context, the call returns
\* FailedFallback or Failed; it does not throw.
C3_NoContextGivesFallbackOrFailed ==
    (job.pc = "idle" /\ job.error = "Render canvas unavailable.")
        => job.result \in {"FailedFallback", "Failed"}

C3_Witness ==
    /\ job.pc = "idle" /\ job.error = "Render canvas unavailable."
    /\ job.result = "Failed" /\ job.fallbackError = "Fallback render canvas unavailable."

\* C4 as stated: a timed-out job always ends FailedFallback.
C4_TimeoutAlwaysFailedFallback ==
    (job.pc = "idle" /\ job.error = "Render timed out.") => job.result = "FailedFallback"

\* C4 amended: a timed-out job has attempted the fallback render and ends
\* FailedFallback, with the fallback image stored, unless the fallback itself
\* threw, and then it ends Failed; it never ends Completed or Canceled and
\* never throws.
C4_TimeoutFallsBack ==
    (job.pc = "idle" /\ job.error = "Render timed out.")
        => /\ job.fallbackTried
           /\ IF job.fallbackError = ""
              THEN job.result = "FailedFallback" /\ eng.lastRenderBytes[1] = "fallback"
              ELSE job.result = "Failed"

C4_Witness ==
    /\ job.pc = "idle" /\ job.error = "Render timed out."
    /\ job.result = "FailedFallback"

\* C5: Failed is returned only when the fallback render was attempted and
\* threw, and every error caught by the catch block of renderHighQuality has
\* led to an attempt of the fallback.
C5_FailedOnlyAfterFallbackFailed ==
    /\ (job.pc = "idle" /\ job.result = "Failed")
          => (job.fallbackTried /\ job.fallbackError # "")
    /\ job.error # "" => job.fallbackTried

C5_Witness ==
    /\ job.pc = "idle" /\ job.result = "Failed"
    /\ job.error = "Could not encode PNG." /\ job.fallbackError = "render error"

Outcomes == {"Completed", "Canceled", "FailedFallback", "Failed"}

\* No job is running and the engine and the UI are back in their idle state.
Idle ==
    /\ job.pc = "idle"
    /\ ~eng.renderPaused /\ eng.controlsEnabled /\ ~eng.cancelRender
    /\ ~ui.isRendering

\* C6: every started job ends with one of the four outcomes, and the system
\* is then Idle again; whenever no job runs the system is Idle.
C6_JobEndsAndSystemIdle ==
    /\ [](job.pc = "idle" => Idle)
    /\ [](job.pc = "idle" => job.result \in Outcomes \cup {"none"})
    /\ JobRunning ~> (Idle /\ job.result \in Outcomes)

C6_Witness == Idle /\ job.result = "Completed"

\* C7: while a job runs the camera controls are disabled, rendering is paused
\* and animate renders no frame; when no job runs the controls are enabled
\* and rendering is not paused.
C7_ControlsLockedAndPausedDuringJob ==
    /\ JobRunning => (~eng.controlsEnabled /\ eng.renderPaused)
    /\ ~eng.framesInJob
    /\ ~JobRunning => (eng.controlsEnabled /\ ~eng.renderPaused)

\* During a job the user changed the lighting, which calls requestRender.
C7_Witness ==
    /\ JobRunning /\ eng.frameRequested
    /\ eng.uniforms.throwDistance # job.state.throwDistance

(***************************************************************************)
(* Properties of the gobo processor.                                       *)
(***************************************************************************)
\* C8: a call of updateGoboTexture with the arguments of the previous call,
\* with a gobo image loaded and no clearGobo since, does not redraw the work
\* canvas: it leaves current.goboTexture and lastGoboKey as they are.  This
\* holds for the last call made and for a call made next.
C8_RepeatedGoboUpdateSkipsRaster ==
    /\ eng.lastCall.repeat => ~eng.lastCall.rastered
    /\ (eng.goboImage # 0 /\ eng.lastCall.arg # NoGoboState)
          => LET again == updateGoboTexture(eng, eng.lastCall.arg, HeldBy(job))
             IN  /\ again.goboTexture = eng.goboTexture
                 /\ again.lastGoboKey = eng.lastGoboKey
                 /\ again.lastCall.repeat /\ ~again.lastCall.rastered

\* The last call repeated the arguments of the call before it, while a
\* processed texture exists.
C8_Witness == eng.lastCall.repeat /\ eng.goboTexture # 0 /\ eng.goboImage # 0

\* C9: whenever no job is running, spot.map and the preview material's goboMap
\* are the current processed gobo texture, which is not disposed, and hasGobo
\* is 1 exactly when that texture exists; so all three are null / 0 after
\* clearGobo.
C9_GoboBindingsFollowCurrentTexture ==
    ~JobRunning =>
        /\ eng.spotMap = eng.goboTexture
        /\ eng.goboMap = eng.goboTexture
        /\ eng.goboTexture \notin eng.disposed
        /\ (eng.hasGobo = 1) <=> (eng.goboTexture # 0)

(***************************************************************************)
(* Properties of texture loading.                                          *)
(***************************************************************************)
\* The slots, their bindings and the paths the UI stores for them.
TextureState(w) ==
    [current |-> w.eng.current, hqMap |-> w.eng.hqMap,
     baseMap |-> w.eng.baseMap, hasBaseMap |-> w.eng.hasBaseMap,
     disposedTex |-> w.eng.disposedTex,
     goboImage |-> w.eng.goboImage, goboTexture |-> w.eng.goboTexture,
     spotMap |-> w.eng.spotMap, goboMap |-> w.eng.goboMap, hasGobo |-> w.eng.hasGobo,
     lastGoboKey |-> w.eng.lastGoboKey, disposed |-> w.eng.disposed,
     texturePath |-> w.ui.state.texturePath, goboPath |-> w.ui.state.goboPath]

\* C10: whenever a load is pending and its bytes cannot be read or decoded,
\* the UI load function that resumes leaves the slots, the material bindings
\* and the stored paths as they are and shows an error status; it returns
\* normally.
C10_FailedLoadLeavesTexturesUntouched ==
    \A l \in BagToSet(loads), outcome \in LoadOutcomes :
        Threw(outcome) =>
            LET after == loadResumes(World, l, outcome)
            IN  /\ TextureState(after) = TextureState(World)
                /\ after.ui.status.isError
                /\ after.job = job

\* A base texture load has failed while the slot held a texture loaded before.
C10_Witness ==
    /\ ui.status = [text |-> "Could not load that base texture. Please use PNG/JPG/JPEG.",
                    isError |-> TRUE]
    /\ eng.current["base"] # 0 /\ eng.hqMap["base"] = eng.current["base"]
    /\ ui.state.texturePath["base"] # 0

(***************************************************************************)
(* Properties of the texture slots.                                        *)
(***************************************************************************)
\* The textures slot `kind` and its material bindings refer to.
SlotRefs(e, kind) ==
    ({e.current[kind], e.hqMap[kind]} \cup (IF kind = "base" THEN {e.baseMap} ELSE {})) \ {0}

\* No slot and no material binding refers to a texture dispose() was called on.
NoDisposedReferenced(e) == \A kind \in TexKinds : SlotRefs(e, kind) \cap e.disposedTex[kind] = {}

\* C11: in every state, with any number of loads into a slot awaiting their
\* decode, no slot and no material binding refers to a disposed texture; a
\* pending load disposes nothing while it waits, and the step in which it
\* resumes disposes nothing when the decode failed and otherwise disposes
\* exactly the slot's prior texture and installs the new, undisposed one in
\* the slot and its bindings.
C11_SlotsNeverReferenceDisposed ==
    /\ NoDisposedReferenced(eng)
    /\ \A l \in BagToSet(loads), outcome \in LoadOutcomes :
          l.kind \in TexKinds =>
              LET after == loadResumes(World, l, outcome).eng
                  prior == eng.current[l.kind]
              IN  /\ NoDisposedReferenced(after)
                  /\ IF Threw(outcome)
                     THEN after.disposedTex = eng.disposedTex /\ after.current = eng.current
                     ELSE /\ after.current[l.kind] \notin {0, prior}
                          /\ SlotRefs(after, l.kind) = {after.current[l.kind]}
                          /\ after.disposedTex[l.kind] \ eng.disposedTex[l.kind]
                                = {prior} \ {0}

\* Two loads into the base slot are in flight while the slot holds a texture
\* that an earlier load installed.
C11_Witness ==
    /\ \E l \in BagToSet(loads) : l.kind = "base" /\ CopiesIn(l, loads) = 2
    /\ eng.current["base"] # 0 /\ eng.hqMap["base"] = eng.current["base"]

(***************************************************************************)
(* Properties of the photometric converter.                                *)
(***************************************************************************)
\* C12: after applyLightingState, whatever the state object held, every value
\* it derived is a finite number inside its clamp range: spot.intensity in
\* [0.01, 12000], spot.angle the radians of a beam angle in [10, 80],
\* penumbra in [0, 1], ambient intensity in [0, 0.1], house light intensity
\* in [0, 5], haze density in [0, 1], haze height in [0, 2.4], lightGain in
\* [0.12, 3.5], radius in [0.18, 0.56] and both spotCenter components in
\* [0.12, 0.88].
C12_DerivedValuesInClampRange ==
    /\ eng.light.intensity \in 1..1200000
    /\ \E beamAngle \in 10..80 : eng.light.angle = degToRad(beamAngle)
    /\ eng.light.penumbra \in 0..1000
    /\ eng.light.ambient \in 0..100
    /\ eng.light.houseLight \in 0..500
    /\ eng.uniforms.hazeDensity \in 0..1000
    /\ eng.light.hazeHeight \in 0..2400
    /\ eng.light.lightGain \in 120..3500
    /\ eng.light.radius \in 1800..5600
    /\ eng.light.spotCenter[1] \in 1200..8800
    /\ eng.light.spotCenter[2] \in 1200..8800

\* A call whose calibrated intensity exceeded the ceiling and was clamped to
\* it, with the light at grazing incidence.
C12_Witness ==
    /\ eng.light.intensity = 1200000
    /\ eng.light.incidence = 150
    /\ eng.light.candela > 40000000

\* The light faces the wall head-on from the default distance at the default
\* lux: lux = 900, throwDistance = 3.2, azimuth = elevation = 0.
FacingWallAtDefaults ==
    /\ eng.spotPosition = [throw |-> 32, azimuth |-> 0, elevation |-> 0, jitter |-> 0]
    /\ eng.light.lightGain = 750

\* C13: spot.intensity is the candela value lux * throwDistance^2 /
\* max(cos incidence, 0.15), times 0.03, clamped to [0.01, 12000]; for lux =
\* 900, throwDistance = 3.2 and incidence 1.0 the candela value is 9216 and
\* spot.intensity is 276.48, below the ceiling.
C13_IntensityFromLuxAndDistance ==
    /\ eng.light.incidence \in 150..1000
    /\ eng.light.intensity = clamp((eng.light.candela * 3) \div 100, 1, 1200000)
    /\ FacingWallAtDefaults =>
          /\ eng.light.incidence = 1000
          /\ eng.light.candela = 921600
          /\ eng.light.intensity = 27648
          /\ eng.light.intensity < 1200000

C13_Witness == FacingWallAtDefaults /\ eng.light.intensity = 27648

(***************************************************************************)
(* Properties of the colour controls.                                      *)
(***************************************************************************)
\* Channel c (0: blue, 1: green, 2: red) of colour 0xrrggbb.
Channel(hex, c) == (hex \div (256 ^ c)) % 256

\* C14: the light colour the engine holds is, on each of the red, green and
\* blue channels, round(base * gel / 255) for the base light colour and the
\* gel of the UI state; the product is the same with its arguments swapped,
\* and with the gel #ffffff it is the base colour.
C14_FinalColorIsChannelProduct ==
    LET base == ui.state.lightColorHex
        gel == ui.state.gelHex
    IN  /\ \A c \in 0..2 :
              Channel(eng.light.color, c)
                  = (2 * Channel(base, c) * Channel(gel, c) + 255) \div 510
        /\ gel = 16777215 => eng.light.color = base
        /\ \A a, b \in (LightColors \cup GelPresets \cup GelColors) \ {InvalidHex} :
              /\ multiplyHex(a, b) = multiplyHex(b, a)
              /\ multiplyHex(a, 16777215) = a

\* The red gel #ff5a5a over the default light #ffd6a8 gives #ff4c3b: green is
\* round(214 * 90 / 255) = 76 and blue round(168 * 90 / 255) = 59.
C14_Witness ==
    /\ ui.state.lightColorHex = 16766632 /\ ui.state.gelHex = 16734810
    /\ eng.light.color = 16731195

(***************************************************************************)
(* Properties of the camera state.                                         *)
(***************************************************************************)
\* The camera state object has two arrays of three numbers.
WellFormed(cameraState) ==
    ~cameraState.isNull /\ Len(cameraState.position) = 3 /\ Len(cameraState.target) = 3

Rays ==
    [hit : {TRUE}, len : {1800, 4200}, jitter : {0, 900}, field : {0, 500, 1250},
     lit : {120, 4320}]
    \cup [hit : {FALSE}, len : {1800}, jitter : {0}, field : {500}, lit : {120}]
    \cup [hit : {TRUE}, len : {0}, jitter : {0}, field : {500}, lit : {120}]

\* C16: with haze disabled (hazeEnabled = 0), whatever the density and the
\* quality preset, the haze pass gives every fragment it does not discard
\* zero radiance and alpha 0, the transmittance staying 1.0 over all steps;
\* and hazeAnimating is false.
C16_DisabledHazeContributesNothing ==
    eng.uniforms.hazeEnabled = 0 =>
        /\ ~eng.hazeAnimating
        /\ \A ray \in Rays :
              /\ hazeFragment(HazeUniforms(eng), ray).color = 0
              /\ hazeFragment(HazeUniforms(eng), ray).alpha = 0
              /\ hazeMarch(HazeUniforms(eng), ray, 0, 1000, 0).trans = 1000

\* Haze is disabled at full density and the High preset, where the pass
\* would contribute if it were enabled.
C16_Witness ==
    /\ eng.uniforms = [throwDistance |-> DefaultThrow, hazeEnabled |-> 0, hazeDensity |-> 1000]
    /\ eng.light.stepCount = 32
    /\ \E ray \in Rays :
          hazeFragment([HazeUniforms(eng) EXCEPT !.hazeEnabled = 1], ray).alpha > 0

(***************************************************************************)
(* Properties of frame scheduling.                                         *)
(***************************************************************************)
\* C17: while haze is not animating and no job is running, the frame
\* callback that renders the pending frame without a camera change leaves
\* no callback scheduled (animationHandle is null after it), and a step that
\* schedules a callback from none is one that called requestRender(), which
\* leaves the dirty flag set.
C17_FramesOnDemandOnly ==
    [][(~eng.hazeAnimating /\ job.pc = "idle") =>
         /\ (eng.animationHandle /\ eng' = animate(eng, FALSE, FALSE))
               => ~eng'.animationHandle
         /\ (~eng.animationHandle /\ eng'.animationHandle) => eng'.frameRequested]_vars

\* The pending frame has been rendered and the view is at rest: no callback
\* scheduled, the dirty flag clear, no haze animation, no job.
C17_Witness ==
    /\ ~eng.animationHandle
    /\ ~eng.frameRequested
    /\ ~eng.hazeAnimating
    /\ ~eng.renderPaused
    /\ job.pc = "idle"

(***************************************************************************)
(* Properties of the sample loop.                                          *)
(***************************************************************************)
\* C18: a synchronous run of the job renders at most one sample and then
\* waits at the yield; and once requestCancelRender() has been called during
\* a job, no run of the job renders a further sample: the sample count does
\* not grow and the job does not wait at a yield again.
C18_NoSampleAfterCancel ==
    [][/\ job'.i > job.i => (job'.i = job.i + 1 /\ job'.pc = "yield")
       /\ (job.pc # "idle" /\ eng.cancelRender /\ job' # job)
             => (job'.i <= job.i /\ job'.pc # "yield")]_vars

\* Cancel was requested while the job waits at the yield after its ninth
\* sample.
C18_Witness == job.pc = "yield" /\ job.i = 9 /\ eng.cancelRender /\ ui.isRendering

(***************************************************************************)
(* Properties of the stored render.                                        *)
(***************************************************************************)
\* C19: lastRenderBytes, what getLastRenderBytes() hands to Export PNG,
\* changes only in a step in which a job ends Completed or FailedFallback.
\* A job that ends Canceled or Failed leaves it as it was in the step before,
\* hence as it was when the job started.
C19_LastRenderChangesOnlyOnSuccess ==
    [][/\ eng'.lastRenderBytes # eng.lastRenderBytes
            => (JobReturns /\ job'.result \in {"Completed", "FailedFallback"})
       /\ (JobReturns /\ job'.result \in {"Canceled", "Failed"})
            => eng'.lastRenderBytes = eng.lastRenderBytes]_vars

\* A job has ended Canceled while the render of an earlier job is stored.
C19_Witness ==
    /\ job.pc = "idle"
    /\ job.result = "Canceled"
    /\ eng.lastRenderBytes[1] = "hq"

(***************************************************************************)
(* Properties of the accumulation.                                         *)
(***************************************************************************)
\* The rounding allowed: one level for each drawImage.
RoundingLevels == samples

\* C20: when the loop of a job has rendered all its samples and every sample
\* had the same level v at a pixel, the accumulated image that is encoded
\* has level v at that pixel, up to rounding: the samples are averaged with
\* equal weights 1/samples.
C20_UniformSamplesAccumulateToSameValue ==
    \A v \in AccumPixels :
        (job.pc = "encode" /\ job.i = samples /\ job.rendered = {v})
            => job.accum \in (v - RoundingLevels)..(v + RoundingLevels)

(***************************************************************************)
(* Properties of Reload Code.                                              *)
(***************************************************************************)
\* C21: the lighting, gobo and resource-path state and the camera state in
\* effect when Reload Code is chosen are the state the relaunched app starts
\* from.
C21_ReloadCodeRestoresState ==
    [][ReloadCodeClick =>
         /\ ui'.state = ui.state
         /\ getCameraState(eng') = getCameraState(eng)]_vars

(***************************************************************************)
(* Properties of the debounced gobo controls.                              *)
(***************************************************************************)
\* The engine's last updateGoboTexture call carried the gobo values of the
\* UI state.
EngineHasLatestGobo == eng.lastCall.arg = GoboStateOf(ui.state)

\* A step of a non-immediate applyGoboControls call: it changes a slider's
\* value or sets the timer.
DebouncedCall ==
    /\ ui'.state.goboInvert = ui.state.goboInvert
    /\ \/ ui'.state # ui.state
       \/ (~ui.goboUpdateTimer /\ ui'.goboUpdateTimer)

\* A step of the timer's callback or of an immediate applyGoboControls call:
\* the timer fires, or the invert checkbox changes.
EngineUpdate ==
    \/ (ui'.state = ui.state /\ ui'.pendingTimers < ui.pendingTimers)
    \/ ui'.state.goboInvert # ui.state.goboInvert

\* C22: at most one debounce timer is pending, and it is the one
\* goboUpdateTimer holds; a non-immediate call leaves the engine alone and one
\* timer pending, however many calls came before it; the timer's callback
\* and an immediate call leave no timer pending and update the engine with
\* the UI's current gobo values, so that with no timer pending the engine
\* has the latest values; and a pending timer leads to that.
C22_DebouncedGoboUpdatesCoalesce ==
    /\ [](ui.pendingTimers = (IF ui.goboUpdateTimer THEN 1 ELSE 0))
    /\ [](ui.pendingTimers = 0 => EngineHasLatestGobo)
    /\ [][DebouncedCall => (eng' = eng /\ ui'.pendingTimers = 1)]_vars
    /\ [][EngineUpdate
             => (ui'.pendingTimers = 0 /\ eng'.lastCall.arg = GoboStateOf(ui'.state))]_vars
    /\ (ui.pendingTimers > 0) ~> (ui.pendingTimers = 0 /\ EngineHasLatestGobo)

\* Several non-immediate calls have been made since the engine's last update
\* (scale and rotation both differ from what the engine has) and one timer is
\* pending.
C22_Witness ==
    /\ ui.pendingTimers = 1
    /\ eng.lastCall.arg.scale # ui.state.goboScale
    /\ eng.lastCall.arg.rotation # ui.state.goboRotation
    /\ eng.goboImage # 0

(***************************************************************************)
(* Properties of late cancel requests.                                     *)
(***************************************************************************)
\* C23 as stated: a job that returns while a cancel request made during the
\* final yield or during the PNG encode is pending returns Canceled, and no
\* job with a pending cancel request returns Completed.
C23_LateCancelYieldsCanceled ==
    [][(/\ eng.cancelRender
        /\ job.pc = "encode" \/ (job.pc = "yield" /\ job.i = samples)
        /\ job'.pc = "idle")
          => job'.result = "Canceled"]_vars

\* C23, corrected: a cancel request made during the final yield gives
\* Canceled; the job goes on to the PNG encode only with no request pending;
\* and a request made during the encode is not read any more: the job ends
\* Completed if the encode succeeds and takes the fallback otherwise, never
\* Canceled.
C23_CancelHonouredUntilLoopEnds ==
    [][/\ (job.pc = "yield" /\ job.i = samples /\ eng.cancelRender /\ job' # job)
            => (job'.pc = "idle" /\ job'.result = "Canceled")
       /\ (job.pc # "encode" /\ job'.pc = "encode") => ~eng.cancelRender
       /\ (job.pc = "encode" /\ job' # job) => job'.result # "Canceled"]_vars

\* A cancel request is pending while the final image is being encoded.
C23_Witness == job.pc = "encode" /\ eng.cancelRender /\ ui.isRendering

(***************************************************************************)
(* Properties of the render and cancel buttons.                            *)
(***************************************************************************)
\* C24: a job is running exactly while isRendering is true; the render button
\* is disabled and the cancel button enabled exactly then; and no step starts
\* a renderHighQuality call while one is running: a running call keeps the
\* snapshot and the saved settings it started with until it returns.
C24_OneJobAtATime ==
    /\ [](ui.isRendering <=> job.pc # "idle")
    /\ [](ui.hqDisabled = ui.isRendering /\ ui.cancelDisabled = ~ui.isRendering)
    /\ [][(job.pc # "idle" /\ job'.pc # "idle")
            => (job'.old = job.old /\ job'.state = job.state /\ job'.pre = job.pre)]_vars

\* A job is running, three samples in, with the render button disabled and
\* the cancel button enabled.
C24_Witness ==
    /\ ui.isRendering /\ ui.hqDisabled /\ ~ui.cancelDisabled
    /\ job.pc = "yield" /\ job.i = 3


\* C25: whenever a pending loadGoboImage call resumes with its image decoded,
\* the processed gobo texture the engine then holds was drawn from the image
\* of that call's path, also when the call's gobo parameters give the key of
\* the previous update and a processed texture exists.
C25_LoadedGoboIsRasterized ==
    [][\A l \in BagToSet(loads) :
         (l.kind = "gobo" /\ LoadEndsWith(l, "loaded"))
            => (eng'.goboTexture # 0 /\ eng'.goboTextureImage = l.path)]_vars

\* The light parameters applyLightingState derives from a lighting state.
LightParams(e) ==
    [spotPosition |-> e.spotPosition, light |-> e.light, uniforms |-> e.uniforms]

\* C26: whenever no high-quality job is running, the spot position, the
\* derived light values and the haze uniforms of the engine are those
\* applyLightingState derives from the UI's current lighting state, also
\* after a job during which a lighting control was changed.
C26_IdleEngineReflectsUiState ==
    job.pc = "idle" => LightParams(eng) = LightParams(pushLightingToRenderer(eng, ui))

\* The withLoading calls in progress that were started after the last forced
\* hide of the overlay.
LiveLoaderOps == {l \in BagToSet(loads) : ~l.timedOut}

\* C27: the loading overlay is visible exactly while a loading operation is
\* in progress, loadingDepth is never negative and the failsafe timer is set
\* only while loadingDepth > 0, also after the failsafe has hidden the overlay
\* and a later operation has started: the late stopLoading of a timed-out
\* operation does not hide the overlay of the later one.
C27_OverlayVisibleWhileLoading ==
    /\ ~ui.overlayHidden <=> LiveLoaderOps # {}
    /\ ui.loadingDepth >= 0
    /\ ui.loadingFailsafeTimer => ui.loadingDepth > 0

\* C28: whenever no loadMaterialPackage call is pending, a stored texture
\* path is non-empty only if the matching slot of the engine holds a texture.
\* (Under PackageSpec a slot is filled only by the package's load of the
\* stored path.)
C28_StoredPathsHaveTextures ==
    loads = EmptyBag =>
        \A k \in TexKinds : ui.state.texturePath[k] # 0 => eng.current[k] # 0

\* C29: a call of renderHighQuality that does not return at once runs with
\* the cancel flag false whatever the flag was before, and one that returns at
\* once is not Canceled; a job returns Canceled only when the flag was set
\* while it ran; and the flag is false in the idle state a job returns to.
C29_CancelAffectsRunningJobOnly ==
    /\ [][(job.pc = "idle" /\ job' # job)
            => IF job'.pc = "idle" THEN job'.result # "Canceled"
               ELSE ~eng'.cancelRender]_vars
    /\ [][(job.pc # "idle" /\ job'.pc = "idle" /\ job'.result = "Canceled")
            => eng.cancelRender]_vars
    /\ [][((job.pc # "idle" \/ job' # job) /\ job'.pc = "idle")
            => ~eng'.cancelRender]_vars

\* A job that found the cancel flag set when it was called has completed.
C29_Witness ==
    job.pc = "idle" /\ job.foundCancel /\ job.result = "Completed" /\ ~eng.cancelRender

====
